---- MODULE Spec2Model ----
(***************************************************************************)
(* Staged document pipeline and upload queue of zip-automation.            *)
(*                                                                         *)
(* The file system is the state: every stage is a directory, a document is *)
(* a file in it, a transition is a rename.  Handlers are asynchronous      *)
(* callbacks; every await of the source is a step boundary of the model,   *)
(* so handlers interleave exactly at their suspension points.  The         *)
(* operator who drops and removes files acts concurrently with all of it.  *)
(***************************************************************************)
EXTENDS Naturals, Integers, Sequences, FiniteSets, Bags, TLC

(***************************************************************************)
(* File names are character sequences, so that the extension handling of   *)
(* the handlers is computed as the code computes it.                       *)
(***************************************************************************)
NameA == <<"a", ".", "p", "d", "f">>
NameX == <<"x", ".", "p", "d", "f", "y", ".", "p", "d", "f">>
NameB == <<"b", ".", "p", "d", "f">>

\* The documents.  d1 and d3 are two different documents with one file name.
Doc == {"d1", "d2", "d3", "d4"}
NameOf == [d \in Doc |-> CASE d = "d1" -> NameA
                          [] d = "d2" -> NameX
                          [] d = "d3" -> NameA
                          [] OTHER    -> NameB]
Name == {NameOf[d] : d \in Doc}
\* readdirSync lists a directory in name order.
NameOrder == <<NameA, NameB, NameX>>

DotPdf == <<".", "p", "d", "f">>

\* String.prototype.toLowerCase, on the alphabet of the names.
LowerChar(c) == CASE c = "P" -> "p" [] c = "D" -> "d" [] c = "F" -> "f" [] OTHER -> c
toLowerCase(s) == [i \in 1..Len(s) |-> LowerChar(s[i])]
endsWith(s, suffix) ==
    /\ Len(s) >= Len(suffix)
    /\ SubSeq(s, Len(s) - Len(suffix) + 1, Len(s)) = suffix
\* f.toLowerCase().endsWith(".pdf"): the filter of every listing and handler.
IsPdf(n) == endsWith(toLowerCase(n), DotPdf)

\* path.extname: from the last dot to the end; empty when there is no dot or
\* the only dot is the first character.
DotsOf(s) == {i \in 1..Len(s) : s[i] = "."}
LastDot(s) == CHOOSE i \in DotsOf(s) : \A j \in DotsOf(s) : j <= i
extname(s) == IF DotsOf(s) = {} \/ LastDot(s) = 1 THEN <<>>
              ELSE SubSeq(s, LastDot(s), Len(s))

\* String.prototype.replace(pattern, "") with a string pattern: the FIRST
\* occurrence of the pattern is removed.
OccursAt(s, pat, i) == /\ i + Len(pat) - 1 <= Len(s)
                       /\ SubSeq(s, i, i + Len(pat) - 1) = pat
Occurrences(s, pat) == {i \in 1..Len(s) : OccursAt(s, pat, i)}
FirstOccurrence(s, pat) == CHOOSE i \in Occurrences(s, pat) :
                               \A j \in Occurrences(s, pat) : i <= j
replaceWithEmpty(s, pat) ==
    IF pat = <<>> \/ Occurrences(s, pat) = {} THEN s
    ELSE SubSeq(s, 1, FirstOccurrence(s, pat) - 1)
         \o SubSeq(s, FirstOccurrence(s, pat) + Len(pat), Len(s))

\* fileName.replace(fileExtension, ""): what the Linearized handler compares
\* with the recognized barcode.
ExpectedIdentifier(fileName) == replaceWithEmpty(fileName, extname(fileName))

\* The file name with only its trailing extension removed.
Stem(fileName) == SubSeq(fileName, 1, Len(fileName) - Len(extname(fileName)))

\* Barcodes the recognition collaborator may return (data.barcode).
Barcode == {<<>>, <<"a">>, <<"z">>, Stem(NameX), ExpectedIdentifier(NameX)}

(***************************************************************************)
(* Directories.  "Batch" is the one batch sub-directory of the scan root,  *)
(* "Scanned" the scan root itself; both are the stage Scanned.             *)
(***************************************************************************)
Dir == {"Batch", "Scanned", "Linearized", "Error", "Upload", "Uploaded", "UploadError"}
StageDir == Dir \ {"Batch"}

MAX_RETRIES == 3
RETRY_DELAY == 1000

\* Bounds of the model.
MaxEnqueueCalls == 3
MaxRemovals == 1
\* The poll ticks and the PDF counts of one waitForFolderToStabilize call.
MaxTicks == 6
MaxCount == 2
\* The entries the upload folder can hold when processUploadFolder lists it.
MaxListed == 11
\* How often the CSV audit log gets locked against appendFileSync.
MaxLocks == 1

VARIABLES
    dirs,          \* [Dir -> SUBSET Doc]: the files of every directory
    batchExists,   \* whether the batch sub-directory still exists
    removals,      \* how many files the operator has taken out so far
    audit,         \* the CSV audit log, a bag of records
    online,        \* whether the network is reachable right now
    uploadMode,    \* "direct": the add handler of setupUploadWatcher uploads;
                   \* "queue": upload-folder events go to the UploadQueue;
                   \* "index": the program running is src/index.js
    pdfPc,         \* handleNewPDF, per path of the scan root
    batchPc, batchList, batchIdx,   \* handleNewFolder on the batch directory
    linPc, linTry, linDelay, linBarcode, linDest,  \* Linearized add handler, per path
    recognized,    \* per document: what its verification ended with
    upPc, upTry, upDelay, upBytes, upDest,  \* upload-folder add handler, per path
    upDoc,         \* per path: the documents whose bytes its handler has read
    queue, isProcessing, processedFiles,   \* UploadQueue fields
    drain,         \* the processQueue invocations suspended in or after their
                   \* await of uploadToSystem, oldest first
    fetchCount,    \* fetches sent by uploadToSystem, per path
    skipped,       \* paths uploadToSystem found missing and skipped
    enqueueCalls,  \* number of enqueue calls made so far
    reEnqueued,    \* processed paths that were passed to enqueue again
    csvWritable,   \* whether fs.appendFileSync on the CSV audit log succeeds
    csvLocks,      \* how often the CSV audit log has been locked so far
    durationMs,    \* waitForFolderToStabilize: the quiet period asked for
    interval,      \* waitForFolderToStabilize: the poll interval
    intervalId,    \* whether the poll timer is set
    previousCount, \* the count the last changed sample left
    stableTime,    \* the time the count has been seen unchanged
    samples,       \* the counts sampled at the last ticks, at most MaxTicks
    resolved,      \* how often resolve() was called
    uncaught,      \* whether an exception has left a callback uncaught
    ixPc,          \* src/index.js upload watcher: the add handler of each path
    ixBatches,     \* the batches its processUploadFolder call split the listing into
    ixBatchNo,     \* the batch it is uploading
    ixIdx,         \* the file of the batch that uploadToSystem is compressing
    ixForm,        \* the file names appended to the form of the batch
    ixCall,        \* how the last compressPDFInMemory call of the handler ended
    tmpdir,        \* the temporary output paths that exist in os.tmpdir()
    included,      \* per path: the upload requests sent with it in the form
    puPc,          \* one processUploadFolder call of src/index.js on a long listing
    puFiles,       \* the listing it read
    puBatches,     \* what splitIntoBatches returned for it
    puI,           \* the batch it is uploading
    puForm         \* the entries appended to the form of that batch

fsVars    == <<dirs, batchExists, removals>>
pdfVars   == <<pdfPc>>
batchVars == <<batchPc, batchList, batchIdx>>
linVars   == <<linPc, linTry, linDelay, linBarcode, linDest, recognized>>
upVars    == <<upPc, upTry, upDelay, upBytes, upDest, upDoc>>
stabVars == <<durationMs, interval, intervalId, previousCount, stableTime, samples,
              resolved, uncaught>>
puVars == <<puPc, puFiles, puBatches, puI, puForm>>
ixVars == <<ixPc, ixBatches, ixBatchNo, ixIdx, ixForm, ixCall, tmpdir, included, puVars>>
logVars == <<csvWritable, csvLocks>>
queueVars == <<queue, isProcessing, processedFiles, drain, fetchCount, skipped,
               enqueueCalls, reEnqueued, logVars>>
vars == <<fsVars, audit, online, uploadMode, stabVars, ixVars, pdfVars, batchVars, linVars, upVars, queueVars>>

(***************************************************************************)
(* File-system primitives.                                                 *)
(***************************************************************************)
FilesAt(fs, dir, n) == {d \in fs[dir] : NameOf[d] = n}
\* fs.existsSync / fs.promises.access on a path of a directory.
existsSync(fs, dir, n) == FilesAt(fs, dir, n) # {}

\* A mutant of rename: the file is copied, the source is left in place.
renameCopies(fs, src, dst, n) ==
    [fs EXCEPT ![dst] = (@ \ FilesAt(fs, dst, n)) \cup FilesAt(fs, src, n)]
\* fs.renameSync / fs.promises.rename of an existing source: the file leaves
\* src and enters dst in one step; a file of that name already in dst is
\* replaced.
rename(fs, src, dst, n) ==
    [fs EXCEPT ![dst] = (@ \ FilesAt(fs, dst, n)) \cup FilesAt(fs, src, n),
               ![src] = @ \ FilesAt(fs, src, n)]

\* chokidar's add event: a path that appears in a watched directory where it
\* was not before is announced, so a handler of that path that has finished is
\* started again; a file replaced in place is no new path.
addEvent(pc, fs, dir, n) ==
    IF pc[n] \in {"done", "deferred"} /\ ~existsSync(fs, dir, n) THEN [pc EXCEPT ![n] = "idle"] ELSE pc

\* logCsvEvent: one record appended to the audit log.
Csv(folder, file, status, action) ==
    [folder |-> folder, file |-> file, status |-> status, action |-> action]
logCsvEvent(log, rec) == log (+) SetToBag({rec})
NoFile == <<>>
\* No recognition result yet.
NoBarcode == <<"none">>
\* The verification of a document ended in an exception.
Threw == <<"exception">>
\* The documents of name n in dir get the verification result v.
Verified(rec, fs, dir, n, v) ==
    [d \in Doc |-> IF d \in FilesAt(fs, dir, n) THEN v ELSE rec[d]]

(***************************************************************************)
(* Initial state.  With the scan watcher wired ("direct") the operator has *)
(* dropped every document under the scan root, in the batch directory or   *)
(* beside it; two files of one name are never in one directory.  With the  *)
(* UploadQueue wired ("queue") the documents start in the upload folder,   *)
(* as they do for the one watcher main starts.                             *)
(***************************************************************************)

\* No waitForFolderToStabilize call is looked at: handleNewFolder_List stands
\* for the moment its promise resolves.
NoStabilizeCall ==
    /\ durationMs = 4000 /\ interval = 1000
    /\ intervalId = FALSE
    /\ previousCount = 0 /\ stableTime = 0
    /\ samples = <<>>
    /\ resolved = 0
    /\ uncaught = FALSE

\* No add handler of the src/index.js upload watcher has run.
NoIndexUpload ==
    /\ ixPc = [n \in Name |-> "idle"]
    /\ ixBatches = [n \in Name |-> <<>>]
    /\ ixBatchNo = [n \in Name |-> 0]
    /\ ixIdx = [n \in Name |-> 0]
    /\ ixForm = [n \in Name |-> <<>>]
    /\ ixCall = [n \in Name |-> "none"]
    /\ tmpdir = {}
    /\ included = [n \in Name |-> 0]
    /\ puPc = "idle" /\ puFiles = <<>> /\ puBatches = <<>> /\ puI = 0 /\ puForm = <<>>

\* No handler has run, nothing is logged, the queue is as constructed.
HandlersIdle ==
    /\ removals = 0
    /\ audit = EmptyBag
    /\ pdfPc = [n \in Name |-> "idle"]
    /\ batchPc = "idle" /\ batchList = <<>> /\ batchIdx = 0
    /\ linPc = [n \in Name |-> "idle"]
    /\ linTry = [n \in Name |-> 0]
    /\ linDelay = [n \in Name |-> 0]
    /\ linBarcode = [n \in Name |-> NoBarcode]
    /\ linDest = [n \in Name |-> "none"]
    /\ recognized = [d \in Doc |-> NoBarcode]
    /\ upPc = [n \in Name |-> "idle"]
    /\ upTry = [n \in Name |-> 0]
    /\ upDelay = [n \in Name |-> 0]
    /\ upBytes = [n \in Name |-> "none"]
    /\ upDest = [n \in Name |-> "none"]
    /\ upDoc = [n \in Name |-> {}]
    /\ queue = <<>> /\ isProcessing = FALSE /\ processedFiles = {}
    /\ drain = <<>>
    /\ fetchCount = [n \in Name |-> 0]
    /\ skipped = {}
    /\ enqueueCalls = 0
    /\ reEnqueued = {}
    /\ csvWritable = TRUE /\ csvLocks = 0

PipelineInit ==
    /\ uploadMode \in {"direct", "queue"}
    /\ IF uploadMode = "direct"
       THEN dirs \in {[dir \in Dir |-> IF dir = "Batch" THEN {"d1", "d2"} ELSE {}],
                      [dir \in Dir |-> CASE dir = "Batch" -> {"d1"}
                                         [] dir = "Scanned" -> {"d3"}
                                         [] OTHER -> {}]}
       ELSE dirs = [dir \in Dir |-> IF dir = "Upload" THEN {"d1", "d2", "d4"} ELSE {}]
    /\ batchExists = (uploadMode = "direct")
    /\ online \in BOOLEAN
    /\ HandlersIdle

Init == PipelineInit /\ NoStabilizeCall /\ NoIndexUpload

(***************************************************************************)
(* The operator removes a file from a directory the pipeline still works   *)
(* on (the I/O race of the error taxonomy).                                *)
(***************************************************************************)
OperatorRemoves(dir, d) ==
    /\ dir \in {"Batch", "Scanned", "Linearized", "Upload"}
    /\ d \in dirs[dir]
    /\ IsPdf(NameOf[d])
    /\ removals < MaxRemovals
    /\ dirs' = [dirs EXCEPT ![dir] = @ \ {d}]
    /\ removals' = removals + 1
    /\ UNCHANGED <<batchExists, audit, online, uploadMode, stabVars, ixVars, pdfVars, batchVars, linVars,
                   upVars, queueVars>>

(***************************************************************************)
(* The network comes and goes.                                             *)
(***************************************************************************)
NetworkChanges ==
    /\ online' = ~online
    /\ UNCHANGED <<fsVars, audit, uploadMode, stabVars, ixVars, pdfVars, batchVars, linVars, upVars,
                   queueVars>>

(***************************************************************************)
(* handleNewPDF: a PDF directly under the scan root.                       *)
(***************************************************************************)
\* The scan watcher's add callback up to the 2 s settle delay.
handleNewPDF_Start(n) ==
    /\ uploadMode = "direct"
    /\ pdfPc[n] = "idle"
    /\ existsSync(dirs, "Scanned", n)
    /\ IsPdf(n)
    /\ audit' = logCsvEvent(audit, Csv("Scanned", n, "Info", "PDF Detected"))
    /\ pdfPc' = [pdfPc EXCEPT ![n] = "settle"]
    /\ UNCHANGED <<fsVars, online, uploadMode, stabVars, ixVars, batchVars, linVars, upVars, queueVars>>

\* After the delay: generatePDFReport reads the file and awaits the parser.  A
\* missing file makes its catch block throw from statSync, which handleNewPDF
\* catches and logs.
handleNewPDF_Report(n) ==
    /\ pdfPc[n] = "settle"
    /\ IF existsSync(dirs, "Scanned", n)
       THEN /\ pdfPc' = [pdfPc EXCEPT ![n] = "parse"]
            /\ audit' = audit
       ELSE /\ pdfPc' = [pdfPc EXCEPT ![n] = "done"]
            /\ audit' = logCsvEvent(audit, Csv("Scanned", n, "Fail", "Process PDF"))
    /\ UNCHANGED <<fsVars, online, uploadMode, stabVars, ixVars, batchVars, linVars, upVars, queueVars>>

\* How generateAndSaveReport ends for a file that exists: with the full
\* report saved; with the basic report saved, after reading or parsing the
\* file failed inside generatePDFReport; or with savePDFReport throwing from
\* writeFileSync or appendFileSync.
ReportOutcome == {"saved", "basic", "saveThrows"}
\* savePDFReport(pdfReport) runs outside any try block of generateAndSaveReport.
reportThrows(report) == report = "saveThrows"

\* After the parser: statSync, savePDFReport, renameSync into Linearized.
handleNewPDF_MoveReturns(n, report, renameOk) ==
    /\ pdfPc[n] = "parse"
    /\ IF existsSync(dirs, "Scanned", n) /\ ~reportThrows(report) /\ renameOk
       THEN /\ dirs' = rename(dirs, "Scanned", "Linearized", n)
            /\ linPc' = addEvent(linPc, dirs, "Linearized", n)
            /\ audit' = logCsvEvent(audit, Csv("Scanned", n, "Pass", "Move to Linearized"))
       ELSE /\ UNCHANGED <<dirs, linPc>>
            /\ audit' = logCsvEvent(audit, Csv("Scanned", n, "Fail", "Process PDF"))
    /\ pdfPc' = [pdfPc EXCEPT ![n] = "done"]
    /\ UNCHANGED <<batchExists, removals, online, uploadMode, stabVars, ixVars, batchVars, linTry, linDelay,
                   linBarcode, linDest, recognized, upVars, queueVars>>

handleNewPDF_Move(n) ==
    \E report \in ReportOutcome, renameOk \in BOOLEAN :
        handleNewPDF_MoveReturns(n, report, renameOk)

(***************************************************************************)
(* handleNewFolder: the batch sub-directory of the scan root.              *)
(***************************************************************************)
\* fs.readdirSync(folderPath).filter(pdf), in listing order.
ListPdfs(fs) ==
    SelectSeq(NameOrder, LAMBDA n : existsSync(fs, "Batch", n) /\ IsPdf(n))

\* A mutant of rmdirSync: the directory is removed with what it holds.
rmdirRemovesNonEmpty(fs) == TRUE
\* fs.rmdirSync removes an empty directory only and throws otherwise.
rmdirSync(fs) == fs["Batch"] = {}

\* The record cleanupOriginalFolder appends to the log `log`.
cleanupLog(fs, log) ==
    logCsvEvent(log, Csv("Batch", NoFile, IF rmdirSync(fs) THEN "Pass" ELSE "Fail",
                         "Cleanup"))
\* cleanupOriginalFolder: rmdirSync in a try/catch, logged either way.
cleanupOriginalFolder(fs, log) ==
    /\ batchExists' = (batchExists /\ ~rmdirSync(fs))
    /\ audit' = cleanupLog(fs, log)

\* A mutant of the catch block: it also cleans the folder up.
handleNewFolder_CatchCleansUp(log) ==
    /\ cleanupOriginalFolder(dirs, logCsvEvent(log, Csv("Batch", NoFile, "Fail",
                                                        "Process Folder")))
    /\ batchPc' = "done"
\* The catch block of handleNewFolder.
handleNewFolder_Catch(log) ==
    /\ audit' = logCsvEvent(log, Csv("Batch", NoFile, "Fail", "Process Folder"))
    /\ batchExists' = batchExists
    /\ batchPc' = "done"

\* The loop of moveToDestinationFolder arriving at file i: past the end of the
\* list it returns and handleNewFolder cleans up; otherwise generatePDFReport
\* reads the file and awaits the parser.  For a missing file the catch block of
\* generatePDFReport throws from statSync: the loop is left and the catch block
\* of handleNewFolder runs.
moveToDestinationFolder_Iterate(fs, log, list, i) ==
    /\ batchIdx' = i
    /\ IF i > Len(list)
       THEN cleanupOriginalFolder(fs, log) /\ batchPc' = "done"
       ELSE IF existsSync(fs, "Batch", list[i])
            THEN /\ audit' = log
                 /\ batchExists' = batchExists
                 /\ batchPc' = "parse"
            ELSE handleNewFolder_Catch(log)

\* The addDir callback up to the await of waitForFolderToStabilize.
handleNewFolder_Start ==
    /\ uploadMode = "direct"
    /\ batchPc = "idle"
    /\ batchExists
    /\ audit' = logCsvEvent(audit, Csv("Batch", NoFile, "Info", "Folder Detected"))
    /\ batchPc' = "stabilize"
    /\ UNCHANGED <<fsVars, online, uploadMode, stabVars, ixVars, pdfVars, batchList, batchIdx, linVars, upVars, queueVars>>

\* The folder is stable: stabilizeAndPrepareFolder lists it.  Without PDFs it
\* logs, cleans up and returns null, whose destructuring throws in
\* handleNewFolder; with PDFs both functions log the count and the loop starts.
handleNewFolder_List ==
    /\ batchPc = "stabilize"
    /\ batchList' = ListPdfs(dirs)
    /\ IF ListPdfs(dirs) = <<>>
       THEN /\ batchExists' = (batchExists /\ ~rmdirSync(dirs))
            /\ audit' = logCsvEvent(
                   cleanupLog(dirs, logCsvEvent(audit,
                       Csv("Batch", NoFile, "Fail", "No PDFs"))),
                   Csv("Batch", NoFile, "Fail", "Process Folder"))
            /\ batchPc' = "done"
            /\ batchIdx' = 0
       ELSE moveToDestinationFolder_Iterate(dirs,
                logCsvEvent(logCsvEvent(audit,
                    Csv("Batch", NoFile, "Pass", "PDFs Found")),
                    Csv("Batch", NoFile, "Pass", "PDFs Found")),
                ListPdfs(dirs), 1)
    /\ UNCHANGED <<dirs, removals, online, uploadMode, stabVars, ixVars, pdfVars, linVars, upVars, queueVars>>

\* The parser returned for file batchIdx: statSync, savePDFReport, renameSync
\* in its own try/catch, then the loop goes on to the next file.  A throw of
\* statSync or savePDFReport leaves the loop for the catch block of
\* handleNewFolder.
moveToDestinationFolder_MoveReturns(report, renameOk) ==
    /\ batchPc = "parse"
    /\ LET file == batchList[batchIdx] IN
          IF ~existsSync(dirs, "Batch", file) \/ reportThrows(report)
          THEN /\ handleNewFolder_Catch(audit)
               /\ UNCHANGED <<dirs, batchIdx, linPc>>
          ELSE IF renameOk
          THEN /\ dirs' = rename(dirs, "Batch", "Linearized", file)
               /\ linPc' = addEvent(linPc, dirs, "Linearized", file)
               /\ moveToDestinationFolder_Iterate(rename(dirs, "Batch", "Linearized", file),
                      logCsvEvent(audit, Csv("Batch", file, "Pass", "Move to Linearized")),
                      batchList, batchIdx + 1)
          ELSE /\ UNCHANGED <<dirs, linPc>>
               /\ moveToDestinationFolder_Iterate(dirs,
                      logCsvEvent(audit, Csv("Batch", file, "Fail", "Move to Linearized")),
                      batchList, batchIdx + 1)
    /\ UNCHANGED <<removals, online, uploadMode, stabVars, ixVars, pdfVars, batchList, linTry, linDelay, linBarcode,
                   linDest, recognized, upVars, queueVars>>

moveToDestinationFolder_Move ==
    \E report \in ReportOutcome, renameOk \in BOOLEAN :
        moveToDestinationFolder_MoveReturns(report, renameOk)

(***************************************************************************)
(* The add handler of setupLinearizedWatcher: verification.                *)
(***************************************************************************)
\* What one recognition attempt can come back with: the fetch throws or the
\* status is not ok; the body is no JSON; the JSON has no data field; or
\* data.barcode is a string.
OcrOutcome ==
    {[kind |-> k, barcode |-> <<>>] : k \in {"error", "badjson", "nodata"}}
    \cup {[kind |-> "data", barcode |-> b] : b \in Barcode}

\* A mutant of the backoff: the same delay after every failed attempt.
backoffDelayConstant(try) == RETRY_DELAY
\* setTimeout(resolve, RETRY_DELAY * (i + 1)), for the attempt number try = i + 1.
backoffDelay(try) == RETRY_DELAY * try

\* A mutant of the rethrow: the loop gives up one attempt late.
retryOperationRethrowsLate(try) == try = MAX_RETRIES + 1
\* if (i === retries - 1) throw error, for the attempt number try = i + 1.
retryOperationRethrows(try) == try = MAX_RETRIES

\* A mutant of the probe: the lookup never reports offline.
checkInternetConnectionAlwaysTrue(reachable) == TRUE
\* checkInternetConnection: true when the DNS lookup resolves.
checkInternetConnection(reachable) == reachable

\* result.data.barcode && result.data.barcode.length > 0 &&
\* fileName.replace(fileExtension, "") === result.data.barcode
BarcodeMatches(fileName, barcode) ==
    /\ barcode # <<>>
    /\ ExpectedIdentifier(fileName) = barcode

\* The callback up to the await of checkInternetConnection.
linearized_Start(n) ==
    /\ uploadMode = "direct"
    /\ linPc[n] = "idle"
    /\ existsSync(dirs, "Linearized", n)
    /\ IsPdf(n)
    /\ linPc' = [linPc EXCEPT ![n] = "probe"]
    /\ UNCHANGED <<fsVars, audit, online, uploadMode, stabVars, ixVars, pdfVars, batchVars, linTry, linDelay,
                   linBarcode, linDest, recognized, upVars, queueVars>>

\* The probe answers: offline returns at once, online starts reading the file.
linearized_Probe(n) ==
    /\ linPc[n] = "probe"
    /\ linPc' = [linPc EXCEPT ![n] = IF checkInternetConnection(online) THEN "read"
                                     ELSE "deferred"]
    /\ UNCHANGED <<fsVars, audit, online, uploadMode, stabVars, ixVars, pdfVars, batchVars, linTry, linDelay,
                   linBarcode, linDest, recognized, upVars, queueVars>>

\* readFile answers: a read error returns from the handler; otherwise the
\* first recognition request is sent.
linearized_Read(n) ==
    /\ linPc[n] = "read"
    /\ \E readOk \in BOOLEAN :
          IF existsSync(dirs, "Linearized", n) /\ readOk
          THEN /\ linPc' = [linPc EXCEPT ![n] = "ocr"]
               /\ linTry' = [linTry EXCEPT ![n] = 1]
               /\ UNCHANGED recognized
          ELSE /\ linPc' = [linPc EXCEPT ![n] = "done"]
               /\ recognized' = Verified(recognized, dirs, "Linearized", n, Threw)
               /\ UNCHANGED linTry
    /\ UNCHANGED <<fsVars, audit, online, uploadMode, stabVars, ixVars, pdfVars, batchVars, linDelay,
                   linBarcode, linDest, upVars, queueVars>>

\* The catch block of the handler: a Fail record, then safelyMoveFile to Error.
linearized_Catch(n) ==
    /\ audit' = logCsvEvent(audit, Csv("Linearized", n, "Fail", "Process File"))
    /\ linPc' = [linPc EXCEPT ![n] = "move"]
    /\ linDest' = [linDest EXCEPT ![n] = "ErrorCatch"]
    /\ UNCHANGED <<linTry, linDelay, linBarcode>>

\* One recognition attempt answers (retryOperation around fetch, then
\* response.json() and the comparison).
linearized_OcrReturns(n, r) ==
    /\ linPc[n] = "ocr"
    /\ CASE r.kind = "error" /\ ~retryOperationRethrows(linTry[n]) ->
                /\ linPc' = [linPc EXCEPT ![n] = "backoff"]
                /\ linDelay' = [linDelay EXCEPT ![n] = backoffDelay(linTry[n])]
                /\ UNCHANGED <<audit, linTry, linBarcode, linDest>>
         [] r.kind = "error" /\ retryOperationRethrows(linTry[n]) -> linearized_Catch(n)
         [] r.kind \in {"badjson", "nodata"} -> linearized_Catch(n)
         [] OTHER ->
                /\ linBarcode' = [linBarcode EXCEPT ![n] = r.barcode]
                /\ linDest' = [linDest EXCEPT ![n] =
                                  IF BarcodeMatches(n, r.barcode) THEN "Upload" ELSE "Error"]
                /\ linPc' = [linPc EXCEPT ![n] = "move"]
                /\ UNCHANGED <<audit, linTry, linDelay>>
    /\ UNCHANGED <<fsVars, online, uploadMode, stabVars, ixVars, pdfVars, batchVars, recognized, upVars,
                   queueVars>>

linearized_OcrResponse(n) == \E r \in OcrOutcome : linearized_OcrReturns(n, r)

\* The backoff timer of retryOperation fires: the next attempt is sent.
linearized_Retry(n) ==
    /\ linPc[n] = "backoff"
    /\ linPc' = [linPc EXCEPT ![n] = "ocr"]
    /\ linTry' = [linTry EXCEPT ![n] = @ + 1]
    /\ linDelay' = [linDelay EXCEPT ![n] = 0]
    /\ UNCHANGED <<fsVars, audit, online, uploadMode, stabVars, ixVars, pdfVars, batchVars, linBarcode, linDest, recognized,
                   upVars, queueVars>>

\* safelyMoveFile answers: access and rename succeeded and the result is
\* logged, or one of them threw and only the plain log has it.
linearized_Move(n) ==
    /\ linPc[n] = "move"
    /\ \E renameOk \in BOOLEAN :
          IF existsSync(dirs, "Linearized", n) /\ renameOk
          THEN /\ dirs' = rename(dirs, "Linearized",
                                 IF linDest[n] = "Upload" THEN "Upload" ELSE "Error", n)
               /\ upPc' = IF linDest[n] = "Upload" THEN addEvent(upPc, dirs, "Upload", n)
                          ELSE upPc
               /\ audit' = CASE linDest[n] = "Upload" ->
                                   logCsvEvent(audit, Csv("Linearized", n, "Pass", "OCR Check & Move"))
                             [] linDest[n] = "Error" ->
                                   logCsvEvent(audit, Csv("Linearized", n, "Fail", "OCR Check"))
                             [] OTHER -> audit
          ELSE UNCHANGED <<dirs, audit, upPc>>
    /\ linPc' = [linPc EXCEPT ![n] = "done"]
    /\ linTry' = [linTry EXCEPT ![n] = 0]
    /\ linBarcode' = [linBarcode EXCEPT ![n] = NoBarcode]
    /\ linDest' = [linDest EXCEPT ![n] = "none"]
    /\ recognized' = Verified(recognized, dirs, "Linearized", n,
                               IF linDest[n] = "ErrorCatch" THEN Threw ELSE linBarcode[n])
    /\ UNCHANGED <<batchExists, removals, online, uploadMode, stabVars, ixVars, pdfVars, batchVars, linDelay,
                   upTry, upDelay, upBytes, upDest, upDoc, queueVars>>

(***************************************************************************)
(* The add handler of setupUploadWatcher: compress and upload one file.    *)
(***************************************************************************)
\* What one upload attempt can come back with: the fetch throws or the status
\* is not ok; the body is no JSON (or null); or a 2xx response with JSON.
PostOutcome == {"error", "badjson", "ok"}

\* A mutant of the fallback: after a failed compression nothing is appended.
bytesAppendedCompressedOnly(compressOk) == IF compressOk THEN "compressed" ELSE "none"
\* The bytes appended to the form: the compressed buffer, or in the catch block
\* of the compression the bytes of the original file.
bytesAppended(compressOk) == IF compressOk THEN "compressed" ELSE "original"

\* The callback up to the await of checkInternetConnection.
upload_Start(n) ==
    /\ uploadMode = "direct"
    /\ upPc[n] = "idle"
    /\ existsSync(dirs, "Upload", n)
    /\ IsPdf(n)
    /\ upPc' = [upPc EXCEPT ![n] = "probe"]
    /\ UNCHANGED <<fsVars, audit, online, uploadMode, stabVars, ixVars, pdfVars, batchVars, linVars, upTry, upDelay,
                   upBytes, upDest, upDoc, queueVars>>

\* The probe answers: offline returns at once, online starts reading the file.
upload_Probe(n) ==
    /\ upPc[n] = "probe"
    /\ upPc' = [upPc EXCEPT ![n] = IF checkInternetConnection(online) THEN "read"
                                   ELSE "deferred"]
    /\ UNCHANGED <<fsVars, audit, online, uploadMode, stabVars, ixVars, pdfVars, batchVars, linVars, upTry, upDelay,
                   upBytes, upDest, upDoc, queueVars>>

\* readFile answers: a read error returns from the handler; otherwise
\* fileBuffer holds the document that is at the path now and
\* compressPDFInMemory is started.
upload_Read(n) ==
    /\ upPc[n] = "read"
    /\ \E readOk \in BOOLEAN :
          /\ upPc' = [upPc EXCEPT ![n] = IF existsSync(dirs, "Upload", n) /\ readOk
                                         THEN "compress" ELSE "done"]
          /\ upDoc' = [upDoc EXCEPT ![n] = IF existsSync(dirs, "Upload", n) /\ readOk
                                           THEN FilesAt(dirs, "Upload", n) ELSE {}]
    /\ UNCHANGED <<fsVars, audit, online, uploadMode, stabVars, ixVars, pdfVars, batchVars, linVars, upTry, upDelay,
                   upBytes, upDest, queueVars>>

\* The documents Ghostscript can have read at the path during a compression
\* that started with `before` there and ends with `now` there.
CompressedFrom(before, now) == {before} \cup (IF now = {} THEN {} ELSE {now})

\* compressPDFInMemory answers; on failure the bytes read before are used.  The
\* form is built, the start is logged and the first POST is sent.
upload_CompressReturns(n, compressOk) ==
    /\ upPc[n] = "compress"
    /\ upBytes' = [upBytes EXCEPT ![n] = bytesAppended(compressOk)]
    /\ \E docs \in (IF compressOk THEN CompressedFrom(upDoc[n], FilesAt(dirs, "Upload", n))
                     ELSE {upDoc[n]}) :
          upDoc' = [upDoc EXCEPT ![n] = docs]
    /\ audit' = logCsvEvent(audit, Csv("Upload", n, "Info", "Upload Started"))
    /\ upPc' = [upPc EXCEPT ![n] = "post"]
    /\ upTry' = [upTry EXCEPT ![n] = 1]
    /\ UNCHANGED <<fsVars, online, uploadMode, stabVars, ixVars, pdfVars, batchVars, linVars, upDelay, upDest, queueVars>>

upload_Compress(n) == \E compressOk \in BOOLEAN : upload_CompressReturns(n, compressOk)

\* The catch block of the handler: a Fail record, then safelyMoveFile to
\* UPLOAD_ERROR.
upload_Catch(n) ==
    /\ audit' = logCsvEvent(audit, Csv("Upload", n, "Fail", "Upload Failed"))
    /\ upPc' = [upPc EXCEPT ![n] = "move"]
    /\ upDest' = [upDest EXCEPT ![n] = "UploadError"]
    /\ UNCHANGED <<upTry, upDelay>>

\* One upload attempt answers (retryOperation around fetch, then
\* response.json()).
upload_PostReturns(n, r) ==
    /\ upPc[n] = "post"
    /\ CASE r = "error" /\ ~retryOperationRethrows(upTry[n]) ->
                /\ upPc' = [upPc EXCEPT ![n] = "backoff"]
                /\ upDelay' = [upDelay EXCEPT ![n] = backoffDelay(upTry[n])]
                /\ UNCHANGED <<audit, upTry, upDest>>
         [] r = "error" /\ retryOperationRethrows(upTry[n]) -> upload_Catch(n)
         [] r = "badjson" -> upload_Catch(n)
         [] OTHER ->
                /\ upPc' = [upPc EXCEPT ![n] = "move"]
                /\ upDest' = [upDest EXCEPT ![n] = "Uploaded"]
                /\ UNCHANGED <<audit, upTry, upDelay>>
    /\ UNCHANGED <<fsVars, online, uploadMode, stabVars, ixVars, pdfVars, batchVars, linVars, upBytes,
                   upDoc, queueVars>>

upload_PostResponse(n) == \E r \in PostOutcome : upload_PostReturns(n, r)

\* The backoff timer of retryOperation fires: the next attempt is sent.
upload_Retry(n) ==
    /\ upPc[n] = "backoff"
    /\ upPc' = [upPc EXCEPT ![n] = "post"]
    /\ upTry' = [upTry EXCEPT ![n] = @ + 1]
    /\ upDelay' = [upDelay EXCEPT ![n] = 0]
    /\ UNCHANGED <<fsVars, audit, online, uploadMode, stabVars, ixVars, pdfVars, batchVars, linVars, upBytes, upDest,
                   upDoc, queueVars>>

\* safelyMoveFile answers: after a successful upload the move is logged Pass;
\* a failed move, and the move to UPLOAD_ERROR, reach the plain log only.
upload_Move(n) ==
    /\ upPc[n] = "move"
    /\ \E renameOk \in BOOLEAN :
          IF existsSync(dirs, "Upload", n) /\ renameOk
          THEN /\ dirs' = rename(dirs, "Upload", upDest[n], n)
               /\ audit' = IF upDest[n] = "Uploaded"
                           THEN logCsvEvent(audit, Csv("Upload", n, "Pass", "Upload Complete"))
                           ELSE audit
          ELSE UNCHANGED <<dirs, audit>>
    /\ upPc' = [upPc EXCEPT ![n] = "done"]
    /\ upTry' = [upTry EXCEPT ![n] = 0]
    /\ upBytes' = [upBytes EXCEPT ![n] = "none"]
    /\ upDest' = [upDest EXCEPT ![n] = "none"]
    /\ upDoc' = [upDoc EXCEPT ![n] = {}]
    /\ UNCHANGED <<batchExists, removals, online, uploadMode, stabVars, ixVars, pdfVars, batchVars, linVars, upDelay,
                   queueVars>>

(***************************************************************************)
(* UploadQueue, uploadToSystem, moveFilesAfterUpload, processUploadFolder. *)
(***************************************************************************)
Range(seq) == {seq[i] : i \in 1..Len(seq)}
RemoveAt(seq, i) == SubSeq(seq, 1, i - 1) \o SubSeq(seq, i + 1, Len(seq))
\* Set.prototype.delete on the insertion-ordered Set.
SetDelete(seq, f) == SelectSeq(seq, LAMBDA x : x # f)

\* Set.prototype.add on the insertion-ordered Set.
SetAdd(seq, f) == IF f \in Range(seq) THEN seq ELSE Append(seq, f)

\* A mutant of the test in enqueue: || in place of &&.
IsNewEitherTest(q, proc, file) == file \notin Range(q) \/ file \notin proc
\* A mutant of the test in enqueue: processed paths are not looked up.
IsNewIgnoringProcessed(q, proc, file) == file \notin Range(q)
\* !this.queue.has(file) && !this.processedFiles.has(file)
IsNew(q, proc, file) == file \notin Range(q) /\ file \notin proc

\* The loop of enqueue over its argument: the queue it leaves.
RECURSIVE enqueueLoop(_, _, _)
enqueueLoop(q, proc, files) ==
    IF files = <<>> THEN q
    ELSE enqueueLoop(IF IsNew(q, proc, Head(files)) THEN SetAdd(q, Head(files)) ELSE q,
                     proc, Tail(files))

\* A mutant of the guard of processQueue: a queue of one path is left alone.
processQueueReturnsOnShortQueue(processing, q) == processing \/ Len(q) <= 1
\* A mutant of the guard of processQueue: a drain in progress is not noticed.
processQueueReturnsOnEmptyOnly(processing, q) == q = <<>>
\* if (this.isProcessing || this.queue.size === 0) return
processQueueReturns(processing, q) == processing \/ q = <<>>

\* uploadToSystem([file]) up to its first await: a missing file is skipped and
\* the call returns failure; otherwise compressPDFInMemory is started.
uploadToSystem_Start(fs, file) ==
    IF existsSync(fs, "Upload", file)
    THEN [file |-> file, pc |-> "compress", existing |-> <<file>>, bytes |-> "none",
          docs |-> FilesAt(fs, "Upload", file), success |-> FALSE]
    ELSE [file |-> file, pc |-> "result", existing |-> <<>>, bytes |-> "none",
          docs |-> {}, success |-> FALSE]

\* processQueue() called with the queue q, the flag `processing` and the
\* suspended invocations `tasks`: it returns at once, or takes the first path
\* of the queue and calls uploadToSystem.
\* A mutant of the selection: the path added last is taken.
lastOfQueue(q) == q[Len(q)]
\* const file = Array.from(this.queue)[0]
firstOfQueue(q) == Head(q)

processQueue(fs, q, processing, tasks, skip) ==
    IF processQueueReturns(processing, q)
    THEN /\ isProcessing' = processing
         /\ drain' = tasks
         /\ skipped' = skip
    ELSE /\ isProcessing' = TRUE
         /\ drain' = Append(tasks, uploadToSystem_Start(fs, firstOfQueue(q)))
         /\ skipped' = IF existsSync(fs, "Upload", firstOfQueue(q)) THEN skip
                       ELSE skip \cup {firstOfQueue(q)}

\* enqueue(files)
enqueue(files) ==
    /\ queue' = enqueueLoop(queue, processedFiles, files)
    /\ IF Len(enqueueLoop(queue, processedFiles, files)) > Len(queue)
       THEN processQueue(dirs, enqueueLoop(queue, processedFiles, files), isProcessing,
                         drain, skipped)
       ELSE UNCHANGED <<isProcessing, drain, skipped>>
    /\ reEnqueued' = reEnqueued \cup (Range(files) \cap processedFiles)
    /\ UNCHANGED <<fsVars, audit, online, uploadMode, stabVars, ixVars, pdfVars, batchVars, linVars, upVars,
                   processedFiles, fetchCount, logVars>>

\* The lists enqueue is called with.
EnqueueInput == {<<n>> : n \in Name} \cup {<<n, m>> : n \in Name, m \in Name}

\* Some caller enqueues a list of paths.
Enqueue(files) ==
    /\ uploadMode = "queue"
    /\ enqueueCalls < MaxEnqueueCalls
    /\ enqueueCalls' = enqueueCalls + 1
    /\ enqueue(files)

\* processUploadFolder(newFile) for an add event of the upload folder.
processUploadFolder(newFile) ==
    /\ uploadMode = "queue"
    /\ enqueueCalls < MaxEnqueueCalls
    /\ enqueueCalls' = enqueueCalls + 1
    /\ enqueue(<<newFile>>)

\* isFileHandled
isFileHandled(file) == file \in Range(queue) \/ file \in processedFiles

\* processUploadFolder(): the PDFs of the upload folder not handled yet.
processUploadFolder_All ==
    /\ uploadMode = "queue"
    /\ enqueueCalls < MaxEnqueueCalls
    /\ LET filesToProcess ==
               SelectSeq(NameOrder, LAMBDA n : /\ existsSync(dirs, "Upload", n)
                                               /\ IsPdf(n)
                                               /\ ~isFileHandled(n))
       IN /\ filesToProcess # <<>>
          /\ enqueue(filesToProcess)
    /\ enqueueCalls' = enqueueCalls + 1

\* compressPDFInMemory answers inside uploadToSystem.  Compressed bytes are
\* appended; when compression failed the original bytes are, unless the file is
\* gone, which leaves the form empty and returns failure.  Otherwise the start
\* is logged and the POST is sent; when the CSV log cannot be appended to,
\* logCsvEvent throws into the catch block and failure is returned unsent.
uploadToSystem_CompressReturns(i, compressOk) ==
    /\ drain[i].pc = "compress"
    /\ LET file == drain[i].file IN
          IF ~compressOk /\ ~existsSync(dirs, "Upload", file)
          THEN /\ drain' = [drain EXCEPT ![i].pc = "result", ![i].success = FALSE]
               /\ skipped' = skipped \cup {file}
               /\ UNCHANGED <<audit, fetchCount>>
          ELSE IF ~csvWritable
          THEN /\ drain' = [drain EXCEPT ![i].pc = "result", ![i].success = FALSE]
               /\ UNCHANGED <<audit, fetchCount, skipped>>
          ELSE /\ \E docs \in (IF compressOk
                                THEN CompressedFrom(drain[i].docs, FilesAt(dirs, "Upload", file))
                                ELSE {FilesAt(dirs, "Upload", file)}) :
                     drain' = [drain EXCEPT ![i].pc = "post",
                                            ![i].bytes = bytesAppended(compressOk),
                                            ![i].docs = docs]
               /\ audit' = logCsvEvent(audit, Csv("Upload", file, "Info", "System Upload Started"))
               /\ fetchCount' = [fetchCount EXCEPT ![file] = @ + 1]
               /\ UNCHANGED skipped
    /\ UNCHANGED <<fsVars, online, uploadMode, stabVars, ixVars, pdfVars, batchVars, linVars, upVars, queue,
                   isProcessing, processedFiles, enqueueCalls, reEnqueued, logVars>>

\* The one fetch of uploadToSystem answers: success only for a 2xx response
\* whose body parses; everything else is caught and returned as failure.
uploadToSystem_ResponseReturns(i, r) ==
    /\ drain[i].pc = "post"
    /\ drain' = [drain EXCEPT ![i].pc = "result", ![i].success = (r = "ok")]
    /\ UNCHANGED <<fsVars, audit, online, uploadMode, stabVars, ixVars, pdfVars, batchVars, linVars, upVars, queue,
                   isProcessing, processedFiles, fetchCount, skipped, enqueueCalls,
                   reEnqueued, logVars>>

\* A mutant of the target: a failed upload goes back for another verification.
targetFolderRequeuesFailures(success) == IF success THEN "Uploaded" ELSE "Linearized"
\* const targetFolder = success ? SYSTEM_UPLOADED : UPLOAD_ERROR
targetFolder(success) == IF success THEN "Uploaded" ELSE "UploadError"

\* moveFilesAfterUpload([file], success) on the file system.
moveFilesAfterUpload_Dirs(fs, file, success, renameOk) ==
    IF existsSync(fs, "Upload", file) /\ renameOk
    THEN rename(fs, "Upload", targetFolder(success), file)
    ELSE fs
\* moveFilesAfterUpload([file], success) on the audit log.
moveFilesAfterUpload_Log(fs, log, file, success, renameOk) ==
    IF existsSync(fs, "Upload", file) /\ renameOk
    THEN logCsvEvent(log, Csv(targetFolder(success), file,
                              IF success THEN "Pass" ELSE "Fail", "Move After Upload"))
    ELSE logCsvEvent(log, Csv("Upload", file, "Fail", "Move After Upload"))

\* A mutant of the bookkeeping: only an uploaded path is marked processed.
markProcessedOnSuccessOnly(proc, file, ok) == IF ok THEN proc \cup {file} ELSE proc
\* processedFiles.forEach((f) => this.processedFiles.add(f)) after a success,
\* this.processedFiles.add(file) after a failure.
markProcessed(proc, file, ok) == proc \cup {file}

\* A mutant of the bookkeeping: the last path is deleted, not the one taken.
queueAfterDropsLast(q, file) == SubSeq(q, 1, Len(q) - 1)
\* A mutant of the bookkeeping: the path taken is left in the queue.
queueAfterKeepsFile(q, file) == q
\* this.queue.delete(file)
queueAfter(q, file) == SetDelete(q, file)

\* processQueue resumes after uploadToSystem: the file is moved, the path is
\* marked processed and deleted from the queue; the finally block clears the
\* flag and calls processQueue again when paths remain.
\* A mutant of the finally block: the flag is left as it was.
finallyKeepsFlag(processing) == processing
\* finally { this.isProcessing = false; ... }
finallyFlag(processing) == FALSE

\* When the CSV log cannot be appended to, logCsvEvent throws inside
\* moveFilesAfterUpload, after the rename or from its catch block, and the
\* exception reaches the catch block of processQueue, which only logs: the
\* statements that mark and delete the path are not run.
CaughtInProcessQueue(i) ==
    /\ ~csvWritable
    /\ \/ drain[i].success /\ Len(drain[i].existing) > 0
       \/ existsSync(dirs, "Upload", drain[i].file)

processQueue_Resume_At(i) ==
    /\ drain[i].pc = "result"
    /\ LET file == drain[i].file
           ok == drain[i].success /\ Len(drain[i].existing) > 0
           moves == ok \/ existsSync(dirs, "Upload", file)
           caught == CaughtInProcessQueue(i)
       IN \E renameOk \in BOOLEAN :
             /\ dirs' = IF moves THEN moveFilesAfterUpload_Dirs(dirs, file, ok, renameOk)
                        ELSE dirs
             /\ audit' = IF moves /\ ~caught
                         THEN moveFilesAfterUpload_Log(dirs, audit, file, ok, renameOk)
                         ELSE audit
             /\ processedFiles' = IF caught THEN processedFiles
                                  ELSE markProcessed(processedFiles, file, ok)
             /\ queue' = IF caught THEN queue ELSE queueAfter(queue, file)
             /\ processQueue(IF moves THEN moveFilesAfterUpload_Dirs(dirs, file, ok, renameOk)
                             ELSE dirs,
                             IF caught THEN queue ELSE queueAfter(queue, file),
                             finallyFlag(isProcessing), RemoveAt(drain, i), skipped)
    /\ UNCHANGED <<batchExists, removals, online, uploadMode, stabVars, ixVars, pdfVars, batchVars, linVars, upVars,
                   fetchCount, enqueueCalls, reEnqueued, logVars>>

uploadToSystem_Compress ==
    \E i \in 1..Len(drain) : \E compressOk \in BOOLEAN :
        uploadToSystem_CompressReturns(i, compressOk)
uploadToSystem_Response_At(i) == \E r \in PostOutcome : uploadToSystem_ResponseReturns(i, r)
uploadToSystem_Response == \E i \in 1..Len(drain) : uploadToSystem_Response_At(i)
processQueue_Resume == \E i \in 1..Len(drain) : processQueue_Resume_At(i)

(***************************************************************************)
(* The UploadQueue with a CSV audit log that another program can lock      *)
(* (the file is open in a spreadsheet): fs.appendFileSync then throws.     *)
(***************************************************************************)
\* The CSV log gets locked, or the lock is released.
AuditLogChanges ==
    /\ IF csvWritable
       THEN csvLocks < MaxLocks /\ csvLocks' = csvLocks + 1
       ELSE csvLocks' = csvLocks
    /\ csvWritable' = ~csvWritable
    /\ UNCHANGED <<fsVars, audit, online, uploadMode, stabVars, ixVars, pdfVars, batchVars,
                   linVars, upVars, queue, isProcessing, processedFiles, drain, fetchCount,
                   skipped, enqueueCalls, reEnqueued>>

QueueInit ==
    /\ PipelineInit /\ NoStabilizeCall /\ NoIndexUpload
    /\ uploadMode = "queue"

QueueNext ==
    \/ AuditLogChanges
    \/ \E files \in EnqueueInput : Enqueue(files)
    \/ \E n \in Name : processUploadFolder(n)
    \/ processUploadFolder_All
    \/ uploadToSystem_Compress
    \/ uploadToSystem_Response
    \/ processQueue_Resume

QueueSpec == QueueInit /\ [][QueueNext]_vars

(***************************************************************************)
(* Specification.                                                          *)
(***************************************************************************)
Next ==
    \/ \E dir \in Dir, d \in Doc : OperatorRemoves(dir, d)
    \/ NetworkChanges
    \/ \E n \in Name : handleNewPDF_Start(n)
    \/ \E n \in Name : handleNewPDF_Report(n)
    \/ \E n \in Name : handleNewPDF_Move(n)
    \/ handleNewFolder_Start
    \/ handleNewFolder_List
    \/ moveToDestinationFolder_Move
    \/ \E n \in Name : linearized_Start(n)
    \/ \E n \in Name : linearized_Probe(n)
    \/ \E n \in Name : linearized_Read(n)
    \/ \E n \in Name : linearized_OcrResponse(n)
    \/ \E n \in Name : linearized_Retry(n)
    \/ \E n \in Name : linearized_Move(n)
    \/ \E n \in Name : upload_Start(n)
    \/ \E n \in Name : upload_Probe(n)
    \/ \E n \in Name : upload_Read(n)
    \/ \E n \in Name : upload_Compress(n)
    \/ \E n \in Name : upload_PostResponse(n)
    \/ \E n \in Name : upload_Retry(n)
    \/ \E n \in Name : upload_Move(n)
    \/ \E files \in EnqueueInput : Enqueue(files)
    \/ \E n \in Name : processUploadFolder(n)
    \/ processUploadFolder_All
    \/ uploadToSystem_Compress
    \/ uploadToSystem_Response
    \/ processQueue_Resume

Spec == Init /\ [][Next]_vars

\* Every uploadToSystem call eventually returns: each of its awaits is
\* answered, and the continuation of processQueue then runs on the event loop.
FairSpec ==
    /\ Spec
    /\ WF_vars(uploadToSystem_Compress)
    /\ WF_vars(uploadToSystem_Response)
    /\ WF_vars(processQueue_Resume)

\* A step of a watcher callback or of the queue: everything but the operator
\* and the network.
HandlerStep ==
    \/ \E n \in Name : handleNewPDF_Start(n) \/ handleNewPDF_Report(n) \/ handleNewPDF_Move(n)
    \/ handleNewFolder_Start \/ handleNewFolder_List \/ moveToDestinationFolder_Move
    \/ \E n \in Name : \/ linearized_Start(n) \/ linearized_Probe(n) \/ linearized_Read(n)
                        \/ linearized_OcrResponse(n) \/ linearized_Retry(n)
                        \/ linearized_Move(n)
    \/ \E n \in Name : \/ upload_Start(n) \/ upload_Probe(n) \/ upload_Read(n)
                        \/ upload_Compress(n) \/ upload_PostResponse(n) \/ upload_Retry(n)
                        \/ upload_Move(n)
    \/ uploadToSystem_Compress \/ uploadToSystem_Response \/ processQueue_Resume

\* The event loop runs every callback that is ready: a watcher event that
\* chokidar has emitted, a timer that has expired, an await that is answered.
HandlerFairSpec == Spec /\ WF_vars(HandlerStep)

(***************************************************************************)
(* waitForFolderToStabilize on its own: one call, with the default quiet   *)
(* period or the one stabilizeAndPrepareFolder passes, and the PDF count   *)
(* of the folder changing freely between the ticks while the scanner       *)
(* software writes the batch.                                              *)
(***************************************************************************)
StabilizeInit ==
    /\ PipelineInit /\ NoIndexUpload
    /\ uploadMode = "direct" /\ online /\ dirs["Scanned"] = {}
    /\ durationMs \in {3000, 4000}
    /\ interval = 1000
    /\ intervalId = FALSE
    /\ previousCount = 0 /\ stableTime = 0
    /\ samples = <<>>
    /\ resolved = 0
    /\ uncaught = FALSE

\* new Promise(...): the counters are set and setInterval starts the timer.
\* Only handleNewFolder of part_000 gets as far as this call.
waitForFolderToStabilize_Start ==
    /\ uploadMode = "direct"
    /\ ~intervalId /\ samples = <<>> /\ ~uncaught
    /\ intervalId' = TRUE
    /\ previousCount' = 0
    /\ stableTime' = 0
    /\ UNCHANGED <<fsVars, audit, online, uploadMode, ixVars, pdfVars, batchVars, linVars,
                   upVars, queueVars, durationMs, interval, samples, resolved, uncaught>>

\* The last MaxTicks samples after the count c was sampled.
Sampled(history, c) ==
    IF Len(history) < MaxTicks THEN Append(history, c)
    ELSE Append(Tail(history), c)

\* A mutant of the test: half the quiet period is enough.
isStableEarly(time, duration) == 2 * time >= duration
\* if (stableTime >= durationMs)
isStable(time, duration) == time >= duration

\* One tick of the timer: the folder holds currentCount PDFs.  When the
\* folder is gone readdirSync throws inside the timer callback, which has no
\* try block and is no part of the promise: the exception is uncaught and the
\* process ends with its timers.
waitForFolderToStabilize_Tick ==
    /\ intervalId
    /\ IF ~batchExists
       THEN /\ uncaught' = TRUE
            /\ intervalId' = FALSE
            /\ UNCHANGED <<samples, stableTime, previousCount, resolved>>
       ELSE
       \E currentCount \in 0..MaxCount :
          /\ samples' = Sampled(samples, currentCount)
          /\ uncaught' = uncaught
          /\ IF currentCount = previousCount
             THEN /\ stableTime' = stableTime + interval
                  /\ previousCount' = previousCount
                  /\ IF isStable(stableTime + interval, durationMs)
                     THEN intervalId' = FALSE /\ resolved' = resolved + 1
                     ELSE UNCHANGED <<intervalId, resolved>>
             ELSE /\ previousCount' = currentCount
                  /\ stableTime' = 0
                  /\ UNCHANGED <<intervalId, resolved>>
    /\ UNCHANGED <<fsVars, audit, online, uploadMode, ixVars, pdfVars, batchVars, linVars,
                   upVars, queueVars, durationMs, interval>>

StabilizeNext == waitForFolderToStabilize_Start \/ waitForFolderToStabilize_Tick

StabilizeSpec == StabilizeInit /\ [][StabilizeNext]_vars

\* setInterval fires the callback again and again until clearInterval.
StabilizeFairSpec ==
    /\ StabilizeSpec
    /\ WF_vars(waitForFolderToStabilize_Start)
    /\ WF_vars(waitForFolderToStabilize_Tick)

(***************************************************************************)
(* Exceptions that leave a callback.  The batch directory is removed while *)
(* waitForFolderToStabilize polls it (part_000), or the scan watcher of    *)
(* src/index.js announces a batch directory.                               *)
(***************************************************************************)
\* The batch directory is removed, with what it held, while the timer runs.
BatchDirectoryRemoved ==
    /\ uploadMode = "direct"
    /\ batchExists /\ intervalId
    /\ batchExists' = FALSE
    /\ dirs' = [dirs EXCEPT !["Batch"] = {}]
    /\ UNCHANGED <<removals, audit, online, uploadMode, stabVars, ixVars, pdfVars, batchVars,
                   linVars, upVars, queueVars>>

\* scanWatcher.on("addDir") of src/index.js: the callback calls
\* handleNewFolder, which src/index.js does not define; the ReferenceError is
\* thrown inside the listener, where nothing catches it.
index_addDir ==
    /\ uploadMode = "index"
    /\ batchExists /\ ~uncaught
    /\ uncaught' = TRUE
    /\ UNCHANGED <<fsVars, audit, online, uploadMode, durationMs, interval, intervalId,
                   previousCount, stableTime, samples, resolved, ixVars, pdfVars, batchVars,
                   linVars, upVars, queueVars>>

\* Either program runs with a batch directory under the scan root: part_000
\* has called waitForFolderToStabilize on it, src/index.js watches the root.
CallbackInit ==
    /\ uploadMode \in {"direct", "index"}
    /\ dirs \in {[dir \in Dir |-> IF dir = "Batch" THEN {"d1", "d2"} ELSE {}],
                  [dir \in Dir |-> IF dir = "Batch" THEN {"d1"} ELSE {}]}
    /\ batchExists = TRUE
    /\ online = TRUE
    /\ HandlersIdle
    /\ NoIndexUpload
    /\ durationMs \in {3000, 4000}
    /\ interval = 1000
    /\ intervalId = FALSE
    /\ previousCount = 0 /\ stableTime = 0
    /\ samples = <<>>
    /\ resolved = 0
    /\ uncaught = FALSE

CallbackNext ==
    \/ waitForFolderToStabilize_Start
    \/ waitForFolderToStabilize_Tick
    \/ BatchDirectoryRemoved
    \/ index_addDir

CallbackSpec == CallbackInit /\ [][CallbackNext]_vars

(***************************************************************************)
(* The upload watcher of src/index.js: every add event sleeps and then     *)
(* uploads the whole listing of the upload folder, batch by batch.  There  *)
(* is no queue and no record of the paths already handled.                 *)
(***************************************************************************)
MAX_FILES_PER_UPLOAD == 5

\* files.join(", ")
RECURSIVE Join(_)
Join(files) ==
    IF files = <<>> THEN <<>>
    ELSE IF Len(files) = 1 THEN Head(files)
    ELSE Head(files) \o <<",", " ">> \o Join(Tail(files))

\* A mutant of the slicing: files.slice(i, i + batchSize + 1).
splitIntoBatchesOverlapping(files, batchSize) ==
    [k \in 1..((Len(files) + batchSize - 1) \div batchSize) |->
        SubSeq(files, (k - 1) * batchSize + 1,
               IF k * batchSize + 1 < Len(files) THEN k * batchSize + 1 ELSE Len(files))]
\* splitIntoBatches: consecutive slices of at most batchSize files.
splitIntoBatches(files, batchSize) ==
    [k \in 1..((Len(files) + batchSize - 1) \div batchSize) |->
        SubSeq(files, (k - 1) * batchSize + 1,
               IF k * batchSize < Len(files) THEN k * batchSize ELSE Len(files))]

\* fs.readdirSync(UPLOAD_FOLDER).filter(pdf), in listing order.
ListUpload(fs) ==
    SelectSeq(NameOrder, LAMBDA n : existsSync(fs, "Upload", n) /\ IsPdf(n))

\* The batch that handler n is uploading.
ixBatch(n) == ixBatches[n][ixBatchNo[n]]

\* tempOutputPath of the compressPDFInMemory call that handler n is in:
\* compressed_<Date.now()>_<basename>, a fresh path for every call.
tempOutputPath(n) == [handler |-> n, batch |-> ixBatchNo[n], idx |-> ixIdx[n]]

\* A mutant of the catch block of compressPDFInMemory: the output is left.
catchLeavesTemp(tmp, path) == tmp
\* catch: if (fs.existsSync(tempOutputPath)) fs.unlinkSync(tempOutputPath)
catchUnlinks(tmp, path) == IF path \in tmp THEN tmp \ {path} ELSE tmp

\* compressPDFInMemory returns the buffer: compressPDF resolved and the output
\* could be read.
compressPDFInMemory_Returns(tmp, path, gsOk) == gsOk /\ path \in tmp
\* os.tmpdir() after compressPDFInMemory: the try block unlinks the output it
\* has read; a rejection of compressPDF or a failed read goes to the catch
\* block.
compressPDFInMemory_Temp(tmp, path, gsOk) ==
    IF compressPDFInMemory_Returns(tmp, path, gsOk) THEN tmp \ {path}
    ELSE catchUnlinks(tmp, path)
\* How the call ended: with the buffer, or with a throw after or before the
\* output file was created.
compressPDFInMemory_End(tmp, path, gsOk) ==
    IF compressPDFInMemory_Returns(tmp, path, gsOk) THEN "returned"
    ELSE IF path \in tmp THEN "threwAfterOutput" ELSE "threwBeforeOutput"

\* moveFilesAfterUpload(files, success) of src/index.js: each rename in its
\* own try/catch, logged either way; the renames of the files in failing throw.
RECURSIVE index_moveFilesAfterUpload(_, _, _, _, _)
index_moveFilesAfterUpload(fs, log, files, success, failing) ==
    IF files = <<>> THEN [fs |-> fs, log |-> log]
    ELSE index_moveFilesAfterUpload(
             moveFilesAfterUpload_Dirs(fs, Head(files), success, Head(files) \notin failing),
             moveFilesAfterUpload_Log(fs, log, Head(files), success, Head(files) \notin failing),
             Tail(files), success, failing)

\* The add callback up to its 5 s sleep.
index_Add(n) ==
    /\ ixPc[n] = "idle"
    /\ existsSync(dirs, "Upload", n)
    /\ IsPdf(n)
    /\ ixPc' = [ixPc EXCEPT ![n] = "sleep"]
    /\ UNCHANGED <<fsVars, audit, online, uploadMode, stabVars, ixBatches, ixBatchNo, ixIdx,
                   ixForm, ixCall, tmpdir, included, puVars, pdfVars, batchVars, linVars,
                   upVars, queueVars>>

\* After the sleep: processUploadFolder lists the folder; an empty listing
\* returns, otherwise uploadToSystem starts compressing the first file of the
\* first batch.
index_processUploadFolder(n) ==
    /\ ixPc[n] = "sleep"
    /\ IF ListUpload(dirs) = <<>>
       THEN /\ ixPc' = [ixPc EXCEPT ![n] = "done"]
            /\ UNCHANGED <<ixBatches, ixBatchNo, ixIdx, ixForm>>
       ELSE /\ ixPc' = [ixPc EXCEPT ![n] = "exec"]
            /\ ixBatches' = [ixBatches EXCEPT
                                ![n] = splitIntoBatches(ListUpload(dirs), MAX_FILES_PER_UPLOAD)]
            /\ ixBatchNo' = [ixBatchNo EXCEPT ![n] = 1]
            /\ ixIdx' = [ixIdx EXCEPT ![n] = 1]
            /\ ixForm' = [ixForm EXCEPT ![n] = <<>>]
    /\ UNCHANGED <<fsVars, audit, online, uploadMode, stabVars, ixCall, tmpdir, included,
                   puVars, pdfVars, batchVars, linVars, upVars, queueVars>>

\* Ghostscript, still running, creates the output file.
compressPDF_Writes(n) ==
    /\ ixPc[n] = "exec"
    /\ tempOutputPath(n) \notin tmpdir
    /\ tmpdir' = tmpdir \cup {tempOutputPath(n)}
    /\ UNCHANGED <<fsVars, audit, online, uploadMode, stabVars, ixPc, ixBatches, ixBatchNo, ixIdx,
                   ixForm, ixCall, included, puVars, pdfVars, batchVars, linVars, upVars,
                   queueVars>>

\* compressPDF settles for the file at ixIdx.  Whether compressPDFInMemory
\* returns or throws, uploadToSystem appends the file to the form: the
\* statement after the Blob throws into the same catch block as a failed
\* compression, which appends a stream of the original.  After the last file
\* of the batch the start is logged and the POST is sent.
index_CompressReturns(n, gsOk) ==
    /\ ixPc[n] = "exec"
    /\ tmpdir' = compressPDFInMemory_Temp(tmpdir, tempOutputPath(n), gsOk)
    /\ ixForm' = [ixForm EXCEPT ![n] = Append(@, ixBatch(n)[ixIdx[n]])]
    /\ ixCall' = [ixCall EXCEPT ![n] = compressPDFInMemory_End(tmpdir, tempOutputPath(n), gsOk)]
    /\ IF ixIdx[n] < Len(ixBatch(n))
       THEN /\ ixIdx' = [ixIdx EXCEPT ![n] = @ + 1]
            /\ UNCHANGED <<ixPc, audit, included>>
       ELSE /\ ixPc' = [ixPc EXCEPT ![n] = "post"]
            /\ audit' = logCsvEvent(audit, Csv("Upload", Join(ixBatch(n)), "Info",
                                               "System Upload Started"))
            /\ included' = [m \in Name |->
                               IF m \in Range(ixBatch(n)) THEN included[m] + 1
                               ELSE included[m]]
            /\ UNCHANGED ixIdx
    /\ UNCHANGED <<fsVars, online, uploadMode, stabVars, ixBatches, ixBatchNo, puVars,
                   pdfVars, batchVars, linVars, upVars, queueVars>>

index_Compress(n) == \E gsOk \in BOOLEAN : index_CompressReturns(n, gsOk)

\* The POST of the batch answers: the result is logged, every file of the
\* batch is moved to the target folder, and the next batch, if any, starts
\* after a delay.
index_Response(n) ==
    /\ ixPc[n] = "post"
    /\ \E r \in PostOutcome, failing \in SUBSET Range(ixBatch(n)) :
          LET success == r = "ok"
              moved == index_moveFilesAfterUpload(dirs,
                           logCsvEvent(audit, Csv("Upload", Join(ixBatch(n)),
                                                  IF success THEN "Pass" ELSE "Fail",
                                                  "System Upload")),
                           ixBatch(n), success, failing)
          IN  /\ dirs' = moved.fs
              /\ audit' = moved.log
    /\ ixForm' = [ixForm EXCEPT ![n] = <<>>]
    /\ ixCall' = [ixCall EXCEPT ![n] = "none"]
    /\ IF ixBatchNo[n] < Len(ixBatches[n])
       THEN /\ ixBatchNo' = [ixBatchNo EXCEPT ![n] = @ + 1]
            /\ ixIdx' = [ixIdx EXCEPT ![n] = 1]
            /\ ixPc' = [ixPc EXCEPT ![n] = "exec"]
            /\ UNCHANGED ixBatches
       ELSE /\ ixPc' = [ixPc EXCEPT ![n] = "done"]
            /\ ixBatches' = [ixBatches EXCEPT ![n] = <<>>]
            /\ ixBatchNo' = [ixBatchNo EXCEPT ![n] = 0]
            /\ ixIdx' = [ixIdx EXCEPT ![n] = 0]
    /\ UNCHANGED <<batchExists, removals, online, uploadMode, stabVars, tmpdir, included,
                   puVars, pdfVars, batchVars, linVars, upVars, queueVars>>

IndexUploadInit ==
    /\ PipelineInit /\ NoStabilizeCall /\ NoIndexUpload
    /\ uploadMode = "queue"
    /\ online

IndexUploadNext ==
    \/ \E n \in Name : index_Add(n)
    \/ \E n \in Name : index_processUploadFolder(n)
    \/ \E n \in Name : compressPDF_Writes(n)
    \/ \E n \in Name : index_Compress(n)
    \/ \E n \in Name : index_Response(n)

IndexUploadSpec == IndexUploadInit /\ [][IndexUploadNext]_vars

(***************************************************************************)
(* The size of the upload requests.  One processUploadFolder call of       *)
(* src/index.js is followed over a listing of up to MaxListed entries: it  *)
(* splits the listing and uploadToSystem appends one form entry per file   *)
(* of the batch before it posts.  The records and renames of the call are  *)
(* those of index_CompressReturns and index_Response.  Beside it runs the  *)
(* UploadQueue of part_000, whose requests are built from one path each.   *)
(***************************************************************************)
\* The entries the upload folder can hold, in the order readdirSync lists them.
UploadEntry == 1..MaxListed

RECURSIVE Listing(_)
\* fs.readdirSync(UPLOAD_FOLDER).filter(pdf).map(join) of a folder holding the
\* entries S.
Listing(S) ==
    IF S = {} THEN <<>>
    ELSE LET first == CHOOSE x \in S : \A y \in S : x <= y
         IN  <<first>> \o Listing(S \ {first})

\* processUploadFolder(): an empty listing returns, otherwise the listing is
\* split and uploadToSystem(batches[0]) starts with an empty form.
pu_processUploadFolder ==
    /\ uploadMode = "index"
    /\ puPc = "idle"
    /\ IF puFiles = <<>>
       THEN /\ puPc' = "done"
            /\ UNCHANGED <<puBatches, puI>>
       ELSE /\ puPc' = "append"
            /\ puBatches' = splitIntoBatches(puFiles, MAX_FILES_PER_UPLOAD)
            /\ puI' = 1
    /\ UNCHANGED <<fsVars, audit, online, uploadMode, stabVars, ixPc, ixBatches, ixBatchNo, ixIdx,
                   ixForm, ixCall, tmpdir, included, puFiles, puForm, pdfVars, batchVars,
                   linVars, upVars, queueVars>>

\* uploadToSystem(batch), one turn of its loop: compressPDFInMemory settles and
\* the file is appended to the form, as a Blob or, from the catch block, as a
\* stream.  After the last file of the batch the POST is sent.
pu_Append ==
    /\ puPc = "append"
    /\ puForm' = Append(puForm, puBatches[puI][Len(puForm) + 1])
    /\ puPc' = IF Len(puForm) + 1 < Len(puBatches[puI]) THEN "append" ELSE "post"
    /\ UNCHANGED <<fsVars, audit, online, uploadMode, stabVars, ixPc, ixBatches, ixBatchNo, ixIdx,
                   ixForm, ixCall, tmpdir, included, puFiles, puBatches, puI, pdfVars,
                   batchVars, linVars, upVars, queueVars>>

\* The POST answers; whatever the answer, the loop of processUploadFolder goes
\* on to the next batch, with a new form, or ends.
pu_Response ==
    /\ puPc = "post"
    /\ puForm' = <<>>
    /\ IF puI < Len(puBatches)
       THEN puI' = puI + 1 /\ puPc' = "append"
       ELSE puI' = puI /\ puPc' = "done"
    /\ UNCHANGED <<fsVars, audit, online, uploadMode, stabVars, ixPc, ixBatches, ixBatchNo, ixIdx,
                   ixForm, ixCall, tmpdir, included, puFiles, puBatches, pdfVars,
                   batchVars, linVars, upVars, queueVars>>

\* Either program is started: part_000 with its queue and three documents in
\* the upload folder, or src/index.js with some listing of the upload folder.
BatchInit ==
    /\ uploadMode \in {"queue", "index"}
    /\ dirs = [dir \in Dir |-> IF dir = "Upload" /\ uploadMode = "queue"
                                THEN {"d1", "d2", "d4"} ELSE {}]
    /\ batchExists = FALSE
    /\ online = TRUE
    /\ HandlersIdle
    /\ NoStabilizeCall
    /\ ixPc = [n \in Name |-> "idle"]
    /\ ixBatches = [n \in Name |-> <<>>]
    /\ ixBatchNo = [n \in Name |-> 0]
    /\ ixIdx = [n \in Name |-> 0]
    /\ ixForm = [n \in Name |-> <<>>]
    /\ ixCall = [n \in Name |-> "none"]
    /\ tmpdir = {}
    /\ included = [n \in Name |-> 0]
    /\ puPc = "idle" /\ puBatches = <<>> /\ puI = 0 /\ puForm = <<>>
    /\ IF uploadMode = "index"
       THEN puFiles \in {Listing(S) : S \in SUBSET UploadEntry}
       ELSE puFiles = <<>>

BatchNext ==
    \/ pu_processUploadFolder
    \/ pu_Append
    \/ pu_Response
    \/ \E files \in EnqueueInput : Enqueue(files)
    \/ \E n \in Name : processUploadFolder(n)
    \/ processUploadFolder_All
    \/ uploadToSystem_Compress
    \/ uploadToSystem_Response
    \/ processQueue_Resume

BatchSpec == BatchInit /\ [][BatchNext]_vars

(***************************************************************************)
(* Vocabulary of the properties.                                           *)
(***************************************************************************)
\* The directories that hold the document d.
Holds(fs, d) == {dir \in Dir : d \in fs[dir]}

\* The stage a directory stands for; a batch sub-directory lies in the scan
\* root.
StageName(dir) ==
    CASE dir \in {"Batch", "Scanned"} -> "Scanned"
      [] dir = "Linearized" -> "Linearized"
      [] dir = "Error" -> "Error"
      [] dir = "Upload" -> "Upload-Queued"
      [] dir = "Uploaded" -> "Uploaded"
      [] OTHER -> "Upload-Error"

\* The edges of the stage graph.
StageEdge ==
    {<<"Scanned", "Linearized">>, <<"Linearized", "Error">>,
     <<"Linearized", "Upload-Queued">>, <<"Upload-Queued", "Uploaded">>,
     <<"Upload-Queued", "Upload-Error">>}

\* The batch loop moved the listed file or logged its own Fail record for it.
LoggedForBatchFile(n) ==
    \E st \in {"Pass", "Fail"} : BagIn(Csv("Batch", n, st, "Move to Linearized"), audit)
AllListedHandled == \A i \in 1..Len(batchList) : LoggedForBatchFile(batchList[i])

\* The uploadToSystem calls of processQueue that have not returned yet.
InFlight == {i \in 1..Len(drain) : drain[i].pc \in {"compress", "post"}}

\* The step starts no uploadToSystem call for the path p.
StartsNoUploadFor(p) ==
    \A i \in 1..Len(drain') : drain'[i].file = p => (i <= Len(drain) /\ drain[i].file = p)

\* The step is a call of enqueue, direct or through processUploadFolder(p),
\* with the list files.
EnqueueCall(files) ==
    Enqueue(files) \/ (Len(files) = 1 /\ processUploadFolder(files[1]))

C2_EnqueueOfProcessedChangesNothing ==
    [][\A files \in EnqueueInput :
          (EnqueueCall(files) /\ Range(files) \cap processedFiles # {}) =>
              /\ UNCHANGED <<queue, processedFiles, audit>>
              /\ \A p \in Range(files) \cap processedFiles : StartsNoUploadFor(p)]_vars

\* C2, amended: an enqueue call (or processUploadFolder(p)) whose list holds a
\* processed path p starts no uploadToSystem call for p, does not queue p and
\* leaves processedFiles and the audit log unchanged; the queue grows by the
\* not yet handled paths of the list only, and nothing changes when the list
\* holds handled paths only.
C2_ProcessedIsNotReEntered ==
    [][\A files \in EnqueueInput :
          (EnqueueCall(files) /\ Range(files) \cap processedFiles # {}) =>
              /\ UNCHANGED <<processedFiles, audit>>
              /\ \A p \in Range(files) \cap processedFiles :
                    p \notin Range(queue') /\ StartsNoUploadFor(p)
              /\ Len(queue') >= Len(queue)
              /\ SubSeq(queue', 1, Len(queue)) = queue
              /\ Range(queue') \ Range(queue) \subseteq Range(files) \ processedFiles
              /\ Range(files) \subseteq processedFiles \cup Range(queue) =>
                    UNCHANGED <<queue, drain, isProcessing>>]_vars

\* A path was uploaded once and then passed to enqueue again.
C2_Witness ==
    \E p \in reEnqueued : fetchCount[p] = 1 /\ p \in processedFiles /\ p \notin Range(queue)

(***************************************************************************)
(* C3.  At most one uploadToSystem call started by processQueue is in      *)
(* flight at any time, whether processQueue was called by enqueue or by    *)
(* its own finally block.                                                  *)
(***************************************************************************)
C3_OneUploadInFlight == Cardinality(InFlight) <= 1

\* One enqueue call queued several paths; the first has its outcome and the
\* call for the next, started from the finally block, is in flight while
\* another path waits.
C3_Witness ==
    /\ enqueueCalls = 1
    /\ processedFiles # {}
    /\ Cardinality(InFlight) = 1
    /\ isProcessing

(***************************************************************************)
(* C4.  Statement: of the add handlers of setupUploadWatcher running for   *)
(* different PDFs, at most one has its upload POST in flight.  The handler *)
(* has no lock and no queue: two add events give two concurrent POSTs.     *)
(***************************************************************************)
C4_OnePostInFlight == Cardinality({n \in Name : upPc[n] = "post"}) <= 1

(***************************************************************************)
(* C5.  Every step that takes a document from one directory to another     *)
(* follows an edge of the stage graph: none goes to an earlier stage and   *)
(* none leaves Error, Uploaded or Upload-Error.  (A file the operator      *)
(* removes, or one replaced by a file of its name, is in no directory      *)
(* afterwards; that is no move.)                                           *)
(***************************************************************************)
C5_StageMonotone ==
    [][\A d \in Doc : \A a \in Holds(dirs, d), b \in Holds(dirs', d) :
          a = b \/ <<StageName(a), StageName(b)>> \in StageEdge]_vars

\* One document went all the way to Uploaded and another was routed to Error.
C5_Witness == dirs["Uploaded"] # {} /\ dirs["Error"] # {}

(***************************************************************************)
(* C6.  Each document is in at most one directory of the pipeline at any   *)
(* time: a transition is one rename.                                       *)
(***************************************************************************)
C6_OneDirectory == \A d \in Doc : Cardinality(Holds(dirs, d)) <= 1

\* A document made two transitions and another one made one.
C6_Witness == "d2" \in dirs["Upload"] /\ "d1" \in dirs["Linearized"]

(***************************************************************************)
(* C7.  Original statement: once handleNewFolder is over, the batch        *)
(* directory is removed if and only if every listed document was moved or  *)
(* logged as failed on its own.  The "if" fails: a document whose rename   *)
(* failed is logged and stays, and rmdirSync refuses the non-empty         *)
(* directory.                                                              *)
(***************************************************************************)
C7_RemovedIffAllHandled ==
    batchPc = "done" => (~batchExists <=> AllListedHandled)

\* C7, amended: the batch directory is removed only if every listed document
\* was moved or logged as failed on its own, and only when it is empty; it is
\* never removed while it holds a document.
C7_RemovedOnlyWhenAllHandled ==
    ~batchExists => (dirs["Batch"] = {} /\ AllListedHandled)

\* Two documents were listed and moved, and the directory is gone.
C7_Witness == ~batchExists /\ Len(batchList) = 2 /\ batchPc = "done"

(***************************************************************************)
(* C8.  Statement: a file of a batch that cannot be renamed, or that       *)
(* vanished, is logged Fail for that file and the remaining files are      *)
(* still processed; so once handleNewFolder is over every listed file was  *)
(* moved or has its own Fail record.  A vanished file makes                *)
(* generatePDFReport throw outside the per-file try: the loop is left.     *)
(***************************************************************************)
C8_EveryListedFileHandled == batchPc = "done" => AllListedHandled

(***************************************************************************)
(* C9.  Statement: the Linearized handler moves a document to Upload, with *)
(* a Pass record, exactly when the recognized barcode is not empty and     *)
(* equals the file name without its extension; otherwise it moves it to    *)
(* Error with a Fail record.  Stated for the moves that succeed.  The code *)
(* removes the first occurrence of the extension from the name, which is   *)
(* not the stem when the extension occurs earlier in the name.             *)
(***************************************************************************)
C9_RoutedByStem ==
    [][\A n \in Name :
          (/\ linPc[n] = "move" /\ linPc'[n] = "done"
           /\ linDest[n] \in {"Upload", "Error"}
           /\ dirs' # dirs) =>
              IF linBarcode[n] # <<>> /\ linBarcode[n] = Stem(n)
              THEN /\ dirs' = rename(dirs, "Linearized", "Upload", n)
                   /\ audit' = logCsvEvent(audit, Csv("Linearized", n, "Pass", "OCR Check & Move"))
              ELSE /\ dirs' = rename(dirs, "Linearized", "Error", n)
                   /\ audit' = logCsvEvent(audit, Csv("Linearized", n, "Fail", "OCR Check"))]_vars

(***************************************************************************)
(* C10.  When the probe at the start of the Linearized or the upload add   *)
(* handler reports offline, the handler is over: it sends no recognition   *)
(* and no upload request, writes no audit record and leaves the document   *)
(* where it is.                                                            *)
(***************************************************************************)
C10_OfflineDefers ==
    [][\A n \in Name :
          /\ (linPc[n] = "probe" /\ linPc'[n] # "probe" /\ ~online) =>
                 (linPc'[n] = "deferred" /\ UNCHANGED <<dirs, audit, linTry>>)
          /\ linPc[n] = "deferred" => linPc'[n] \in {"deferred", "idle"}
          /\ (upPc[n] = "probe" /\ upPc'[n] # "probe" /\ ~online) =>
                 (upPc'[n] = "deferred" /\ UNCHANGED <<dirs, audit, upTry>>)
          /\ upPc[n] = "deferred" => upPc'[n] \in {"deferred", "idle"}]_vars

\* Both handlers have returned on an offline probe: one document waits in
\* Linearized and one in Upload, and no request was logged for the latter.
C10_Witness ==
    \E n, m \in Name :
        /\ linPc[n] = "deferred" /\ existsSync(dirs, "Linearized", n)
        /\ upPc[m] = "deferred" /\ existsSync(dirs, "Upload", m)
        /\ ~BagIn(Csv("Upload", m, "Info", "Upload Started"), audit)

(***************************************************************************)
(* More vocabulary of the properties.                                      *)
(***************************************************************************)
\* The audit log holds a Fail record naming the file n.
FailRecorded(log, n) ==
    \E r \in BagToSet(log) : r.file = n /\ r.status = "Fail"

\* The documents of name n in a directory are in the Error directory next.
MovedToError(n) ==
    /\ FilesAt(dirs, "Linearized", n) # {}
    /\ FilesAt(dirs, "Linearized", n) \subseteq dirs'["Error"]

(***************************************************************************)
(* C11.  Statement: when online, a verification that ends in an exception  *)
(* -- the recognition service failing on every attempt, a malformed or     *)
(* data-less response, or a failure to read the file -- leaves the         *)
(* document in Error with a Fail record.  Stated for a file that still     *)
(* exists and a rename that succeeds.  A read failure returns from the     *)
(* handler before the catch block: no move and no record.                  *)
(***************************************************************************)
C11_ExceptionRoutedToError ==
    [][\A n \in Name :
          /\ (/\ linPc[n] = "read" /\ linPc'[n] = "done"
              /\ existsSync(dirs, "Linearized", n)) =>
                 (MovedToError(n) /\ FailRecorded(audit', n))
          /\ (/\ linPc[n] = "move" /\ linPc'[n] = "done"
              /\ linDest[n] = "ErrorCatch"
              /\ dirs' # dirs) =>
                 (MovedToError(n) /\ FailRecorded(audit', n))]_vars

C13_RetryAtMostThrice ==
    [][\A n \in Name :
          /\ linTry'[n] <= 3 /\ upTry'[n] <= 3
          \* a further attempt follows a backoff, and a backoff a thrown attempt
          /\ linTry'[n] > linTry[n] =>
                \/ linPc[n] = "read" /\ linTry'[n] = 1
                \/ linPc[n] = "backoff" /\ linTry'[n] = linTry[n] + 1
          /\ upTry'[n] > upTry[n] =>
                \/ upPc[n] = "compress" /\ upTry'[n] = 1
                \/ upPc[n] = "backoff" /\ upTry'[n] = upTry[n] + 1
          /\ \A r \in OcrOutcome :
                linearized_OcrReturns(n, r) =>
                    CASE r.kind # "error" ->
                             linPc'[n] = "move" /\ linTry'[n] = linTry[n]
                      [] r.kind = "error" /\ linTry[n] < 3 -> linPc'[n] = "backoff"
                      [] OTHER ->
                             /\ linPc'[n] = "move" /\ linDest'[n] = "ErrorCatch"
                             /\ FailRecorded(audit', n)
          /\ \A r \in PostOutcome :
                upload_PostReturns(n, r) =>
                    CASE r # "error" -> upPc'[n] = "move" /\ upTry'[n] = upTry[n]
                      [] r = "error" /\ upTry[n] < 3 -> upPc'[n] = "backoff"
                      [] OTHER ->
                             /\ upPc'[n] = "move" /\ upDest'[n] = "UploadError"
                             /\ FailRecorded(audit', n)]_vars

\* The third recognition attempt failed and the handler is in its catch block
\* while an upload is at its third attempt.
C13_Witness ==
    \E n, m \in Name :
        /\ linTry[n] = 3 /\ linPc[n] = "move" /\ linDest[n] = "ErrorCatch"
        /\ upTry[m] = 3 /\ upPc[m] = "post"

\* The uploadToSystem call i has returned failure and processQueue resumes.
ResumesAfterFailure(i) ==
    /\ processQueue_Resume_At(i)
    /\ ~(drain[i].success /\ Len(drain[i].existing) > 0)

C15_EnqueueIdempotent ==
    [][\A S \in EnqueueInput :
          /\ enqueueLoop(enqueueLoop(queue, processedFiles, S), processedFiles, S)
                 = enqueueLoop(queue, processedFiles, S)
          /\ EnqueueCall(S) =>
                 /\ processedFiles' = processedFiles
                 /\ enqueueLoop(queue', processedFiles', S) = queue'
                 /\ Range(S) \subseteq Range(queue) \cup processedFiles =>
                        UNCHANGED <<queue, drain, isProcessing>>]_vars

\* Two enqueue calls were made and one path is known: the second call held
\* nothing but the path the first one queued, which is still waiting.
C15_Witness ==
    /\ enqueueCalls = 2
    /\ Len(queue) = 1
    /\ processedFiles = {}
    /\ Len(drain) = 1

(***************************************************************************)
(* C16.  At every suspension point the sets queue and processedFiles are   *)
(* disjoint, for every sequence of enqueue calls and every outcome of the  *)
(* uploads.                                                                *)
(***************************************************************************)
C16_QueueAndProcessedDisjoint == Range(queue) \cap processedFiles = {}

\* A drain is suspended at its fetch while paths wait in the queue and others
\* are processed, one of which was enqueued again.
C16_Witness ==
    /\ Len(queue) >= 2
    /\ processedFiles # {}
    /\ reEnqueued # {}
    /\ \E i \in 1..Len(drain) : drain[i].pc = "post"

\* The number of poll intervals that make up the quiet period.
IntervalsNeeded ==
    CHOOSE k \in 1..MaxTicks : k * interval >= durationMs /\ (k - 1) * interval < durationMs

(***************************************************************************)
(* C17.  Statement: waitForFolderToStabilize resolves once, and only at a  *)
(* tick at which the samples of a window of at least durationMs -- this    *)
(* tick's and those of the durationMs/interval intervals before it -- are  *)
(* all equal.  The counter starts from a count of 0 that was never         *)
(* sampled: a folder without PDFs resolves one interval early.             *)
(***************************************************************************)
C17_ResolvesAfterQuietWindow ==
    /\ resolved <= 1
    /\ resolved = 1 =>
          /\ Len(samples) >= IntervalsNeeded + 1
          /\ \A j \in (Len(samples) - IntervalsNeeded)..Len(samples) :
                samples[j] = samples[Len(samples)]


\* ---------------------------------------------------------------------------
\* C18  Stage ordering.  The upload handler submits a document that came in
\* through Scanned only after its verification ended with a recognized
\* identifier equal to the stem of its name; a document whose verification
\* ended otherwise is never submitted.
\* ---------------------------------------------------------------------------
\* The upload handler of path n submits the document to the upload collaborator.
Submits(n) == \E compressOk \in BOOLEAN : upload_CompressReturns(n, compressOk)

\* C18: whenever a document that came in through Scanned is submitted, its
\* verification has ended with a non-empty identifier equal to its stem.
C18_SubmittedOnlyAfterMatch ==
    [][\A n \in Name :
          uploadMode = "direct" /\ Submits(n)
             => \A d \in FilesAt(dirs, "Upload", n) :
                   recognized[d] # <<>> /\ recognized[d] = Stem(n)]_vars

\* ---------------------------------------------------------------------------
\* C19  Every failure outcome of a stage invocation on a document leaves an
\* audit record with status Fail naming the document.
\* ---------------------------------------------------------------------------
\* An invocation on path n ends with a failure outcome: a failed read, a
\* verification failure, a failed move, a failed upload or a vanished file.
EndsInFailure(n) ==
    \/ linearized_Read(n) /\ linPc'[n] = "done"
    \/ linearized_Move(n) /\ (linDest[n] # "Upload" \/ dirs' = dirs)
    \/ upload_Read(n) /\ upPc'[n] = "done"
    \/ upload_Move(n) /\ (upDest[n] # "Uploaded" \/ dirs' = dirs)
    \/ \E i \in 1..Len(drain) : drain[i].file = n /\ ResumesAfterFailure(i)

\* C19: when an invocation on a document ends with a failure outcome, the
\* audit log holds a Fail record naming that document.
C19_EveryFailureAudited ==
    [][\A n \in Name : EndsInFailure(n) => FailRecorded(audit', n)]_vars

CleanupCalled ==
    \E st \in {"Pass", "Fail"} : BagIn(Csv("Batch", NoFile, st, "Cleanup"), audit)

\* C21: for a batch with at least one listed document, cleanupOriginalFolder
\* is called only after the loop has handled every listed document (moved or
\* logged Fail), never between two documents of the batch.
C21_CleanupAfterLoop ==
    (Len(batchList) > 0 /\ CleanupCalled) => (batchPc = "done" /\ AllListedHandled)

\* A batch of two documents, one moved and one whose move failed, was cleaned
\* up.
C21_Witness ==
    /\ Len(batchList) = 2 /\ CleanupCalled
    /\ \E i, j \in 1..2 :
          /\ BagIn(Csv("Batch", batchList[i], "Pass", "Move to Linearized"), audit)
          /\ BagIn(Csv("Batch", batchList[j], "Fail", "Move to Linearized"), audit)

\* ---------------------------------------------------------------------------
\* C22  Zero-document batch.
\* ---------------------------------------------------------------------------
\* The number of audit records of the batch folder itself with status st.
BatchRecords(st) ==
    LET rs == {r \in BagToSet(audit) : r.folder = "Batch" /\ r.file = NoFile
                                         /\ r.status = st}
    IN  BagCardinality([r \in rs |-> CopiesIn(r, audit)])

\* handleNewFolder has ended on a listing without any .pdf file.
EndedOnEmptyListing == batchPc = "done" /\ batchList = <<>>

\* C22: after handleNewFolder ended on a listing without .pdf files, the
\* audit log holds exactly one Fail record of the batch, cleanup was called
\* once and no document was moved.
C22_OneFailRecordForEmptyBatch ==
    EndedOnEmptyListing
       => /\ BatchRecords("Fail") = 1 + CopiesIn(Csv("Batch", NoFile, "Fail", "Cleanup"), audit)
          /\ CopiesIn(Csv("Batch", NoFile, "Pass", "Cleanup"), audit)
               + CopiesIn(Csv("Batch", NoFile, "Fail", "Cleanup"), audit) = 1
          /\ dirs["Linearized"] = {}

\* ---------------------------------------------------------------------------
\* C23  Metadata is best-effort.
\* ---------------------------------------------------------------------------
\* The documents of name n in dir are in Linearized after the step.
MovedToLinearized(dir, n) ==
    FilesAt(dirs, dir, n) # {} /\ FilesAt(dirs, dir, n) \subseteq dirs'["Linearized"]

\* C23: whatever way the metadata report of an existing document ends, the
\* document is moved to Linearized when its rename succeeds, in handleNewPDF
\* and in moveToDestinationFolder.
C23_MetadataNeverBlocksMove ==
    [][\A report \in ReportOutcome :
          /\ \A n \in Name :
                (existsSync(dirs, "Scanned", n) /\ handleNewPDF_MoveReturns(n, report, TRUE))
                   => MovedToLinearized("Scanned", n)
          /\ (/\ batchPc = "parse"
              /\ existsSync(dirs, "Batch", batchList[batchIdx])
              /\ moveToDestinationFolder_MoveReturns(report, TRUE))
                 => MovedToLinearized("Batch", batchList[batchIdx])]_vars

\* ---------------------------------------------------------------------------
\* C24  Deferred documents are retried.
\* ---------------------------------------------------------------------------
\* The document at path n waits where the handler left it on an offline probe.
Deferred(n) ==
    \/ linPc[n] = "deferred" /\ existsSync(dirs, "Linearized", n)
    \/ upPc[n] = "deferred" /\ existsSync(dirs, "Upload", n)

\* C24: when the network is online from some point on, every document that an
\* offline probe left in Linearized or in the upload folder is eventually
\* processed again and leaves that directory.
C24_DeferredIsRetried ==
    (<>[]online) => \A n \in Name : <>[]~Deferred(n)

\* ---------------------------------------------------------------------------
\* C25  Upload through the queue retries the remote collaborator.
\* ---------------------------------------------------------------------------
\* processQueue resumes for task i after uploadToSystem sent its POST and
\* returned failure.
ResumesAfterFailedPost(i) ==
    ResumesAfterFailure(i) /\ drain[i].bytes # "none"

\* C25: when the POST of a queued path fails, the path is routed to
\* Upload-Error and marked processed only after MAX_RETRIES requests were sent
\* for it.
C25_QueueUploadRetries ==
    [][\A i \in 1..Len(drain) :
          ResumesAfterFailedPost(i) => fetchCount[drain[i].file] = MAX_RETRIES]_vars

\* ---------------------------------------------------------------------------
\* C26  Offline deferral on the queue path.
\* ---------------------------------------------------------------------------
\* C26: while the network is unreachable, processQueue sends no upload request
\* for the path it handles, leaves the document in the upload folder and does
\* not add the path to processedFiles.
C26_QueueDefersOffline ==
    [][\A i \in 1..Len(drain) :
          ~online =>
             /\ (\E compressOk \in BOOLEAN : uploadToSystem_CompressReturns(i, compressOk))
                   => fetchCount' = fetchCount
             /\ processQueue_Resume_At(i)
                   => /\ drain[i].file \notin processedFiles'
                      /\ FilesAt(dirs, "Upload", drain[i].file) \subseteq dirs'["Upload"]]_vars

\* ---------------------------------------------------------------------------
\* C27  src/index.js upload watcher: add events that arrive close together.
\* ---------------------------------------------------------------------------
\* C27: no document of the upload folder is included in more than one upload
\* request.
C27_IncludedInOneRequest == \A n \in Name : included[n] <= 1

\* ---------------------------------------------------------------------------
\* C28  compressPDFInMemory leaves no temporary file behind.
\* ---------------------------------------------------------------------------
\* C28: every temporary output path that exists belongs to a
\* compressPDFInMemory call that has not yet returned or thrown.
C28_NoTempFileLeftBehind ==
    \A p \in tmpdir :
        /\ ixPc[p.handler] = "exec"
        /\ ixBatchNo[p.handler] = p.batch
        /\ ixIdx[p.handler] = p.idx

\* The last call of one handler returned, that of another threw after the
\* output was created and that of a third threw before it was; no temporary
\* file exists.
C28_Witness ==
    /\ tmpdir = {}
    /\ {ixCall[n] : n \in Name} = {"returned", "threwAfterOutput", "threwBeforeOutput"}

\* ---------------------------------------------------------------------------
\* C29  Stability detector liveness.
\* ---------------------------------------------------------------------------
\* A poll finds a count that differs from the count of the poll before it.
CountChanges ==
    /\ samples # <<>>
    /\ waitForFolderToStabilize_Tick
    /\ samples'[Len(samples')] # samples[Len(samples)]

\* Poll j of the history found the count the poll before it had found; the
\* first poll of a call has no poll before it.
Unchanged(j) == j > 1 => samples[j] = samples[j - 1]

\* C29: if the count changes only finitely often, waitForFolderToStabilize
\* eventually resolves; and when it has resolved, none of the last
\* durationMs/interval polls found a changed count.
C29_ResolvesIffQuiet ==
    /\ (<>[][~CountChanges]_vars) => <>(resolved = 1)
    /\ [](resolved = 1 =>
             /\ Len(samples) >= IntervalsNeeded
             /\ \A j \in (Len(samples) - IntervalsNeeded + 1)..Len(samples) : Unchanged(j))

\* The count changed at two polls and then stayed: the promise is resolved.
C29_Witness ==
    /\ resolved = 1
    /\ Len(samples) = IntervalsNeeded + 2
    /\ samples[1] # 0
    /\ samples[2] # samples[1]

\* ---------------------------------------------------------------------------
\* C30  UploadQueue drain order is first-discovered.
\* ---------------------------------------------------------------------------
\* The step starts the uploadToSystem call of path f.
StartsUploadOf(f) ==
    /\ \E i \in 1..Len(drain') : drain'[i].file = f
    /\ \A i \in 1..Len(drain) : drain[i].file # f

\* The position of path f in the queue q.
PositionIn(q, f) == CHOOSE i \in 1..Len(q) : q[i] = f

\* C30: the queue keeps its paths in the order of their first addition, and
\* processQueue starts the upload of a path only when every path added before
\* it has left the queue, its upload started earlier.
C30_DrainsInOrderOfAddition ==
    [][/\ \A f, g \in Range(queue') :
             \/ f \in Range(queue) /\ g \in Range(queue)
                   /\ (PositionIn(queue, f) < PositionIn(queue, g)
                         <=> PositionIn(queue', f) < PositionIn(queue', g))
             \/ f \notin Range(queue) /\ g \notin Range(queue)
             \/ f \in Range(queue) /\ g \notin Range(queue)
                   /\ PositionIn(queue', f) < PositionIn(queue', g)
             \/ g \in Range(queue) /\ f \notin Range(queue)
                   /\ PositionIn(queue', g) < PositionIn(queue', f)
       /\ \A f \in Name :
             StartsUploadOf(f)
                => /\ f \in Range(queue')
                   /\ \A g \in Range(queue') \ {f} :
                         /\ PositionIn(queue', f) < PositionIn(queue', g)
                         /\ g \notin processedFiles
                         /\ \A i \in 1..Len(drain') : drain'[i].file # g]_vars

\* Three paths were queued by two calls; the first was handled, the upload of
\* the second is in flight and the third waits.
C30_Witness ==
    /\ Len(queue) = 2
    /\ Cardinality(processedFiles) = 1
    /\ enqueueCalls = 2
    /\ Len(drain) = 1 /\ drain[1].file = queue[1] /\ drain[1].pc = "post"

\* ---------------------------------------------------------------------------
\* C31  retryOperation backoff is linear.
\* ---------------------------------------------------------------------------
\* C31: when attempt k of the recognition request throws, retryOperation waits
\* k x RETRY_DELAY before attempt k + 1 (1000 ms after the first failure,
\* 2000 ms after the second), and waits not at all after the final attempt.
C31_BackoffIsLinear ==
    [][\A n \in Name :
          /\ linearized_OcrReturns(n, [kind |-> "error", barcode |-> <<>>]) =>
                CASE linTry[n] = 1 -> linPc'[n] = "backoff" /\ linDelay'[n] = 1000
                  [] linTry[n] = 2 -> linPc'[n] = "backoff" /\ linDelay'[n] = 2000
                  [] OTHER -> linPc'[n] # "backoff" /\ linDelay'[n] = 0
          /\ linearized_Retry(n) => linTry'[n] = linTry[n] + 1 /\ linDelay'[n] = 0
          /\ linDelay'[n] # 0 => linPc'[n] = "backoff"]_vars

\* The second attempt has failed and the handler waits 2000 ms.
C31_Witness ==
    \E n \in Name : linPc[n] = "backoff" /\ linTry[n] = 2 /\ linDelay[n] = 2000

\* ---------------------------------------------------------------------------
\* C32  Expected identifier extraction in the Linearized add handler.
\* ---------------------------------------------------------------------------
\* C32: whenever the handler compares a recognized barcode with the expected
\* identifier of a file, that identifier is the file name with only its
\* trailing extension removed.
C32_ExpectedIdentifierIsStem ==
    [][\A n \in Name : \A r \in OcrOutcome :
          (r.kind = "data" /\ linearized_OcrReturns(n, r))
             => ExpectedIdentifier(n) = Stem(n)]_vars

\* ---------------------------------------------------------------------------
\* C33  Upload request size ceiling.
\* ---------------------------------------------------------------------------
\* The concatenation of the batches, in order.
RECURSIVE Flatten(_)
Flatten(batches) ==
    IF batches = <<>> THEN <<>> ELSE Head(batches) \o Flatten(Tail(batches))

\* C33: what splitIntoBatches(files, 5) returned holds 1 to 5 paths per
\* batch, exactly 5 in every batch but the last, and concatenates to files;
\* and no request, of processUploadFolder or of the UploadQueue, carries more
\* than 5 documents.
C33_RequestsOfAtMostFive ==
    /\ puPc \in {"append", "post"} \/ (puPc = "done" /\ puFiles # <<>>) =>
          /\ \A k \in 1..Len(puBatches) : Len(puBatches[k]) \in 1..5
          /\ \A k \in 1..(Len(puBatches) - 1) : Len(puBatches[k]) = 5
          /\ Flatten(puBatches) = puFiles
    /\ Len(puForm) <= 5
    /\ puPc = "post" => puForm = puBatches[puI]
    /\ \A i \in 1..Len(drain) : drain[i].pc = "post" => Len(drain[i].existing) \in 1..5

\* A listing of eleven files has reached its third request, of one file, and
\* the queue has a request in flight in some other run.
C33_Witness ==
    puPc = "post" /\ Len(puFiles) = 11 /\ Len(puBatches) = 3 /\ puI = 3 /\ Len(puForm) = 1

\* ---------------------------------------------------------------------------
\* C34  No runtime fatal path.
\* ---------------------------------------------------------------------------
\* C34: no exception raised inside a watcher callback, a timer callback or a
\* stage handler is ever left uncaught.
C34_NoUncaughtException == ~uncaught

\* ---------------------------------------------------------------------------
\* C35  No silent overwrite.
\* ---------------------------------------------------------------------------
\* The step renames the document d into the directory dst.
RenamedInto(dst, d) == d \notin dirs[dst] /\ d \in dirs'[dst]

\* C35: a rename into a stage directory never replaces a different document
\* that is in that directory under the same filename.
C35_NoSilentOverwrite ==
    [][\A dst \in {"Linearized", "Upload", "Error", "Uploaded", "UploadError"} :
          \A d \in Doc, e \in dirs[dst] :
             (RenamedInto(dst, d) /\ e # d /\ NameOf[e] = NameOf[d]) => e \in dirs'[dst]]_vars

\* ---------------------------------------------------------------------------
\* C36  Every exit of a processQueue iteration retires the handled path.
\* ---------------------------------------------------------------------------
\* C36: when an iteration of processQueue ends, through its catch block or
\* not, the path it handled has left the queue and is in processedFiles.
C36_IterationRetiresPath ==
    [][\A i \in 1..Len(drain) :
          processQueue_Resume_At(i) =>
             /\ drain[i].file \notin Range(queue')
             /\ drain[i].file \in processedFiles']_vars

\* ---------------------------------------------------------------------------
\* C37  Only documents the collaborator accepted reach Uploaded.
\* ---------------------------------------------------------------------------
\* The step moves the document d into Uploaded.
MovedToUploaded(d) == d \notin dirs["Uploaded"] /\ d \in dirs'["Uploaded"]

\* C37: a handler decides for Uploaded only on a 2xx response with a JSON
\* body, and a document enters Uploaded only by the move of a handler that
\* decided so for a request that carried that document.
C37_UploadedOnlyIfAccepted ==
    [][/\ \A n \in Name, r \in PostOutcome :
             (upload_PostReturns(n, r) /\ upDest'[n] = "Uploaded") => r = "ok"
       /\ \A i \in 1..Len(drain), r \in PostOutcome :
             (uploadToSystem_ResponseReturns(i, r) /\ drain'[i].success) => r = "ok"
       /\ \A d \in Doc :
             MovedToUploaded(d) =>
                \/ \E n \in Name : /\ upload_Move(n)
                                    /\ upDest[n] = "Uploaded"
                                    /\ d \in upDoc[n]
                \/ \E i \in 1..Len(drain) : /\ processQueue_Resume_At(i)
                                             /\ drain[i].success
                                             /\ d \in drain[i].docs]_vars

\* ---------------------------------------------------------------------------
\* C38  The UploadQueue has no stranded entries.
\* ---------------------------------------------------------------------------
\* C38: whenever no synchronous code runs, a queue that holds a path has a
\* drain in progress: isProcessing false implies the queue is empty.
C38_NoStrandedEntries == ~isProcessing => queue = <<>>

\* A drain of three paths, one of them through the catch block of
\* processQueue while the log was locked, has ended and left the queue empty.
C38_Witness ==
    /\ ~isProcessing /\ queue = <<>>
    /\ Cardinality(processedFiles) = 3
    /\ csvLocks = 1
    /\ \E n \in Name : fetchCount[n] = 2
====
